---- MODULE Spec2Model ----
(***************************************************************************)
(* A model of spimonkey's device session (src/src/spi_monkey.c): the       *)
(* session object, its cached configuration and error record, the driver   *)
(* behind the injected syscall table, and the public operations, each one  *)
(* atomic action (the library is single-threaded and synchronous).         *)
(***************************************************************************)
EXTENDS Integers, Sequences, FiniteSets, TLC

(***************************************************************************)
(* Result codes (src/includes/spm_error.h) and platform error codes.       *)
(***************************************************************************)
SPM_OK == 0
SPM_EPARAM == -1
SPM_ENOTSUP == -2
SPM_ENODEV == -3
SPM_EBUS == -4
SPM_ETIMEOUT == -5
SPM_EIO == -6
SPM_ESTATE == -7
SPM_ECONFIG == -8
SPM_ENOMEM == -9
SPM_ECRC == -10
SPM_EAGAIN == -11

EPERM == 1
EINTR == 4
EIO == 5
ENXIO == 6
EBADF == 9
EAGAIN == 11
ENOMEM == 12
EACCES == 13
EFAULT == 14
EBUSY == 16
ENODEV == 19
ENOTDIR == 20
EISDIR == 21
EINVAL == 22
ENOTTY == 25
ENOSYS == 38
EPROTO == 71
EOPNOTSUPP == 95
ETIMEDOUT == 110

(***************************************************************************)
(* Program constants.                                                      *)
(***************************************************************************)
SPM_MIN_BPW_VALUE == 8
SPM_MAX_BPW_VALUE == 32
SPM_DEFAULT_SPEED_HZ == 5000000
SPM_DEFAULT_MAX_SPEED_HZ == 25000000
SPM_MODE0 == 0
SPM_MODE1 == 1
SPM_MODE2 == 2
SPM_MODE3 == 3
SPI_CPHA == 1
SPI_CPOL == 2
SPI_CS_HIGH == 4
SPI_LSB_FIRST == 8
SPM_PATH_MAX == 32
SPM_MAX_BATCH_XFERS == 256
SPM_BATCH_STACK_THRESHOLD == 32

(***************************************************************************)
(* Bounds of the model.                                                    *)
(***************************************************************************)
\* public operations per run
MaxOps == 3
\* descriptors the syscall table hands out per run
MaxOpens == 1
\* injected failures (a failing syscall or allocation) per run
MaxFaults == 1
\* platform error codes tried on the classifier: 0..MaxErrno
MaxErrno == 133
\* clock modes tried on sanitize_cfg and the mode encoding: 0..MaxMode
MaxMode == 5

(***************************************************************************)
(* Bit operations on naturals, as C's & and | compute them.                *)
(***************************************************************************)
RECURSIVE BitAnd(_, _)
BitAnd(a, b) ==
    IF a = 0 \/ b = 0 THEN 0
    ELSE ((a % 2) * (b % 2)) + 2 * BitAnd(a \div 2, b \div 2)

RECURSIVE BitOr(_, _)
BitOr(a, b) ==
    IF a = 0 THEN b
    ELSE IF b = 0 THEN a
    ELSE (IF (a % 2) + (b % 2) > 0 THEN 1 ELSE 0) + 2 * BitOr(a \div 2, b \div 2)

(***************************************************************************)
(* A size_t is kept as two limbs [h, l] standing for h * 2^16 + l, with    *)
(* l < 2^16: TLC's integers end below 2^32, and the length checks are      *)
(* about that very boundary.                                               *)
(***************************************************************************)
Limb == 2 ^ 16

Size(h, l) == [h |-> h, l |-> l]

UINT32_MAX == Size(Limb - 1, Limb - 1)

SizeIsZero(x) == x.h = 0 /\ x.l = 0

\* x <= y
SizeLeq(x, y) == x.h < y.h \/ (x.h = y.h /\ x.l <= y.l)

\* the cast (uint32_t)x of a size_t
U32(x) == Size(x.h % Limb, x.l)

\* the cast (uint8_t)x
U8(x) == x % 256

\* C's !!x
NotNot(x) == IF x = 0 THEN 0 ELSE 1

(***************************************************************************)
(* Error classifier (src/src/spm_error.c).                                 *)
(***************************************************************************)
spm_map_errno(e) ==
    CASE e = 0 -> SPM_OK
      [] e \in {EINVAL, ENOTDIR, EISDIR} -> SPM_ECONFIG
      [] e \in {ENOSYS, ENOTTY, EOPNOTSUPP} -> SPM_ENOTSUP
      [] e \in {ENODEV, ENXIO} -> SPM_ENODEV
      [] e = ETIMEDOUT -> SPM_ETIMEOUT
      [] e \in {EAGAIN, EINTR, EBUSY} -> SPM_EAGAIN
      [] e \in {EIO, EFAULT} -> SPM_EIO
      [] e = ENOMEM -> SPM_ENOMEM
      [] e \in {EACCES, EPERM, EBADF} -> SPM_ESTATE
      [] e = EPROTO -> SPM_EBUS
      [] OTHER -> SPM_EBUS

\* SPM_ERROR(errptr, code): the record is overwritten with the code, the
\* current errno and the calling function
spm_set_error(code, sys_errno, func) ==
    [code |-> code, sys_errno |-> sys_errno, func |-> func]

(***************************************************************************)
(* Configuration model.                                                    *)
(***************************************************************************)
get_default_cfg ==
    [mode |-> SPM_MODE0, speed_hz |-> 1000000, bits_per_word |-> 8,
     lsb_first |-> 0, cs_active_high |-> 0, delay_usecs |-> 0, cs_change |-> 0]

\* variant: the word size is clamped from below only
sanitize_cfg_lowonly(cfg) ==
    LET m == IF cfg.mode > SPM_MODE3 THEN SPM_MODE0 ELSE cfg.mode
        b1 == IF cfg.bits_per_word < SPM_MIN_BPW_VALUE
              THEN SPM_MIN_BPW_VALUE ELSE cfg.bits_per_word
        s == IF cfg.speed_hz = 0 THEN SPM_DEFAULT_SPEED_HZ ELSE cfg.speed_hz
    IN [mode |-> m, speed_hz |-> s, bits_per_word |-> b1,
        lsb_first |-> NotNot(cfg.lsb_first),
        cs_active_high |-> NotNot(cfg.cs_active_high),
        delay_usecs |-> cfg.delay_usecs,
        cs_change |-> NotNot(cfg.cs_change)]

sanitize_cfg(cfg) ==
    LET m == IF cfg.mode > SPM_MODE3 THEN SPM_MODE0 ELSE cfg.mode
        b1 == IF cfg.bits_per_word < SPM_MIN_BPW_VALUE
              THEN SPM_MIN_BPW_VALUE ELSE cfg.bits_per_word
        b2 == IF b1 > SPM_MAX_BPW_VALUE THEN SPM_MAX_BPW_VALUE ELSE b1
        s == IF cfg.speed_hz = 0 THEN SPM_DEFAULT_SPEED_HZ ELSE cfg.speed_hz
    IN [mode |-> m, speed_hz |-> s, bits_per_word |-> b2,
        lsb_first |-> NotNot(cfg.lsb_first),
        cs_active_high |-> NotNot(cfg.cs_active_high),
        delay_usecs |-> cfg.delay_usecs,
        cs_change |-> NotNot(cfg.cs_change)]

mode_to_mask(mode) ==
    LET lut == <<0, SPI_CPHA, SPI_CPOL, BitOr(SPI_CPOL, SPI_CPHA)>>
    IN IF mode <= SPM_MODE3 THEN lut[mode + 1] ELSE 0

\* variant: the phase and polarity bits are taken for each other
mask_to_mode_swapped(mask) ==
    LET lut == <<SPM_MODE0, SPM_MODE1, SPM_MODE2, SPM_MODE3>>
        cpha == IF BitAnd(mask, SPI_CPHA) # 0 THEN 2 ELSE 0
        cpol == IF BitAnd(mask, SPI_CPOL) # 0 THEN 1 ELSE 0
        idx == BitOr(cpol, cpha)
    IN lut[idx + 1]

mask_to_mode(mask) ==
    LET lut == <<SPM_MODE0, SPM_MODE1, SPM_MODE2, SPM_MODE3>>
        cpha == IF BitAnd(mask, SPI_CPHA) # 0 THEN 1 ELSE 0
        cpol == IF BitAnd(mask, SPI_CPOL) # 0 THEN 2 ELSE 0
        idx == BitOr(cpol, cpha)
    IN lut[idx + 1]

cfg_to_mode_mask(cfg) ==
    BitOr(BitOr(mode_to_mask(cfg.mode),
                IF cfg.cs_active_high # 0 THEN SPI_CS_HIGH ELSE 0),
          IF cfg.lsb_first # 0 THEN SPI_LSB_FIRST ELSE 0)

clamp_bpw(bpw) ==
    LET b1 == IF bpw < SPM_MIN_BPW_VALUE THEN SPM_MIN_BPW_VALUE ELSE bpw
    IN IF b1 > SPM_MAX_BPW_VALUE THEN SPM_MAX_BPW_VALUE ELSE b1

\* variant: the two flags are stored as the masked bits, without !!
fill_config_rawflags(cfg, mode_mask, bpw, hz) ==
    [cfg EXCEPT !.mode = mask_to_mode(mode_mask),
                !.cs_active_high = BitAnd(mode_mask, SPI_CS_HIGH),
                !.lsb_first = BitAnd(mode_mask, SPI_LSB_FIRST),
                !.bits_per_word = bpw,
                !.speed_hz = hz]

\* fill_config writes five fields of *cfg and leaves delay_usecs and
\* cs_change as they were
fill_config(cfg, mode_mask, bpw, hz) ==
    [cfg EXCEPT !.mode = mask_to_mode(mode_mask),
                !.cs_active_high = NotNot(BitAnd(mode_mask, SPI_CS_HIGH)),
                !.lsb_first = NotNot(BitAnd(mode_mask, SPI_LSB_FIRST)),
                !.bits_per_word = bpw,
                !.speed_hz = hz]


(***************************************************************************)
(* State.                                                                  *)
(*   drv     the driver's settings behind the descriptor                   *)
(*   legacy  the driver knows only the 8-bit mode requests                 *)
(*   errno   the platform error code (a global the syscalls set)           *)
(*   osOpen  descriptors the syscall table has open                        *)
(*   nOpens  descriptors handed out by open_ so far                        *)
(*   closes  close_ calls made on each descriptor                          *)
(*   nFaults failures injected so far                                      *)
(*   sess    the session object: "none", "live", or "freed"                *)
(*   dev     the fields of struct spm_device                               *)
(*   handle  the caller's spm_device_t* variable: "null" or "ptr"          *)
(*   last    the last public call: name, result, syscalls it issued        *)
(*   lastCfg whether the last configuration call that reached the driver   *)
(*           ran its read-back to the end                                  *)
(*   nOps    public calls made so far                                      *)
(*   thr     two threads using the session without synchronisation: where  *)
(*           each is in its call, and what it holds in its locals          *)
(***************************************************************************)
VARIABLES drv, legacy, errno, osOpen, nOpens, closes, nFaults, sess, dev,
          handle, last, lastCfg, nOps, thr

vars == <<drv, legacy, errno, osOpen, nOpens, closes, nFaults, sess, dev,
          handle, last, lastCfg, nOps, thr>>

ZeroCfg ==
    [mode |-> 0, speed_hz |-> 0, bits_per_word |-> 0, lsb_first |-> 0,
     cs_active_high |-> 0, delay_usecs |-> 0, cs_change |-> 0]

\* the error record of a calloc'ed session
NoErr == [code |-> 0, sys_errno |-> 0, func |-> ""]

NoDev == [fd |-> -1, cfg |-> ZeroCfg, path |-> <<>>, err |-> NoErr, sys |-> FALSE]

\* what an uninitialized spm_cfg_t on the stack may hold
JunkCfg ==
    [mode |-> 7, speed_hz |-> 0, bits_per_word |-> 255, lsb_first |-> 1,
     cs_active_high |-> 1, delay_usecs |-> 48879, cs_change |-> 1]

UninitCfgs == {ZeroCfg, JunkCfg}

\* a thread that is not in a call: t runs transfers, c configuration calls
IdleTransfer ==
    [pc |-> "idle", kind |-> "none", todo |-> {}, trs |-> <<>>, seen |-> {},
     sent |-> <<>>, rc |-> 0]

IdleConfig ==
    [pc |-> "idle", kind |-> "none", old |-> ZeroCfg, new |-> ZeroCfg,
     todo |-> <<>>, made |-> 0, rc |-> 0]

NoThreads == [t |-> IdleTransfer, c |-> IdleConfig]

(***************************************************************************)
(* The syscall table (src/includes/spm_sys.h) and the driver behind it.    *)
(* A call works on a world w = [drv, errno, calls, heap, open, closes,     *)
(* nopens, faults] and yields the set of its possible outcomes [w, rc, val]: the   *)
(* table is injected, so any call may fail.                                *)
(***************************************************************************)
\* error codes a failing ioctl may report
IoctlErrnos == {EIO}

\* a legacy driver rejects the 32-bit mode requests, every time
Unsupported(req) == legacy /\ req \in {"WR_MODE32", "RD_MODE32"}
\* error codes a failing open may report
OpenErrnos == {EACCES}
\* error codes a failing close may report
CloseErrnos == {EIO, EINTR}

World ==
    [drv |-> drv, errno |-> errno, calls |-> <<>>, heap |-> <<>>,
     open |-> osOpen, closes |-> closes, nopens |-> nOpens, faults |-> nFaults]

\* one syscall: the request, the descriptor, whether it succeeded, the value
\* written (0 when none), the transfer descriptors of a message, whether
\* close_ had been called on the descriptor before, and errno after the call
CallRec(w, req, fd, ok, arg) ==
    [req |-> req, fd |-> fd, ok |-> ok, arg |-> arg, trs |-> <<>>,
     late |-> (fd \in DOMAIN w.closes /\ w.closes[fd] > 0),
     errno |-> w.errno]

Logged(w, req, fd, ok, arg) ==
    [w EXCEPT !.calls = Append(@, CallRec(w, req, fd, ok, arg))]

\* a failing call sets errno to e, or (a table that does not set it) leaves
\* errno as it was
\* the call logged last set errno to e
SetErrno(w, e) ==
    [w EXCEPT !.errno = e, !.calls[Len(w.calls)].errno = e]

Failed(w, req, fd, arg, es) ==
    IF w.faults >= MaxFaults THEN {}
    ELSE { [w |-> [SetErrno(Logged(w, req, fd, FALSE, arg), e)
                     EXCEPT !.faults = @ + 1],
            rc |-> -1, val |-> 0] : e \in es \cup {w.errno} }

\* the driver may round a written speed down to its maximum
DrvStoreSpeed(hz) ==
    {hz} \cup (IF hz > SPM_DEFAULT_MAX_SPEED_HZ
              THEN {SPM_DEFAULT_MAX_SPEED_HZ} ELSE {})

DrvAfterWrite(d, req, arg) ==
    CASE req = "WR_MODE32" -> {[d EXCEPT !.mode = arg]}
      [] req = "WR_MODE" -> {[d EXCEPT !.mode = arg]}
      [] req = "WR_BPW" -> {[d EXCEPT !.bpw = arg]}
      [] req = "WR_SPEED" -> {[d EXCEPT !.hz = h] : h \in DrvStoreSpeed(arg)}
      [] OTHER -> {d}

DrvRead(d, req) ==
    CASE req = "RD_MODE32" -> d.mode
      [] req = "RD_MODE" -> U8(d.mode)
      [] req = "RD_BPW" -> d.bpw
      [] req = "RD_SPEED" -> d.hz
      [] OTHER -> 0

sys_ioctl(w, fd, req, arg) ==
    IF fd \notin w.open
    THEN {[w |-> SetErrno(Logged(w, req, fd, FALSE, arg), EBADF),
           rc |-> -1, val |-> 0]}
    ELSE IF Unsupported(req)
    THEN {[w |-> SetErrno(Logged(w, req, fd, FALSE, arg), ENOTTY),
           rc |-> -1, val |-> 0]}
    ELSE { [w |-> [Logged(w, req, fd, TRUE, arg) EXCEPT !.drv = d],
            rc |-> 0, val |-> DrvRead(w.drv, req)]
           : d \in DrvAfterWrite(w.drv, req, arg) }
         \cup Failed(w, req, fd, arg, IoctlErrnos)

sys_open(w) ==
    LET fd == w.nopens + 1
    IN { [w |-> [Logged(w, "OPEN", fd, TRUE, 0)
                   EXCEPT !.open = @ \cup {fd}, !.nopens = fd],
          rc |-> fd, val |-> 0] }
       \cup Failed(w, "OPEN", -1, 0, OpenErrnos)

\* a close_ call is counted whether it succeeds or not; the descriptor is
\* released either way
sys_close(w, fd) ==
    LET c == [w EXCEPT !.closes = IF fd \in DOMAIN @
                                   THEN [@ EXCEPT ![fd] = @ + 1] ELSE @,
                        !.open = @ \ {fd}]
    IN IF fd \notin w.open
       THEN {[w |-> SetErrno(Logged(c, "CLOSE", fd, FALSE, 0), EBADF),
              rc |-> -1, val |-> 0]}
       ELSE {[w |-> Logged(c, "CLOSE", fd, TRUE, 0), rc |-> 0, val |-> 0]}
            \cup Failed(c, "CLOSE", fd, 0, CloseErrnos)

(***************************************************************************)
(* Low-level and high-level ioctl helpers. Each yields its outcomes.       *)
(***************************************************************************)
ioctl_read_mode(w, fd) ==
    UNION { IF r.rc = 0 THEN {r}
            ELSE { IF r8.rc < 0 THEN r8 ELSE [r8 EXCEPT !.rc = 0]
                   : r8 \in sys_ioctl(r.w, fd, "RD_MODE", 0) }
            : r \in sys_ioctl(w, fd, "RD_MODE32", 0) }

\* variant: no 8-bit request after a refused 32-bit mode write
ioctl_write_mode_nofallback(w, fd, mode) ==
    sys_ioctl(w, fd, "WR_MODE32", mode)

ioctl_write_mode(w, fd, mode) ==
    UNION { IF r.rc = 0 THEN {r}
            ELSE sys_ioctl(r.w, fd, "WR_MODE", U8(mode))
            : r \in sys_ioctl(w, fd, "WR_MODE32", mode) }

\* outcomes [w, rc, mode, bpw, hz]; bpw is clamped only on full success
ioctl_read_config(w, fd) ==
    UNION { IF m.rc < 0 THEN {[w |-> m.w, rc |-> -1, mode |-> 0, bpw |-> 0, hz |-> 0]}
            ELSE UNION {
              IF b.rc < 0 THEN {[w |-> b.w, rc |-> -1, mode |-> 0, bpw |-> 0, hz |-> 0]}
              ELSE { IF h.rc < 0
                     THEN [w |-> h.w, rc |-> -1, mode |-> 0, bpw |-> 0, hz |-> 0]
                     ELSE [w |-> h.w, rc |-> 0, mode |-> m.val,
                           bpw |-> clamp_bpw(b.val), hz |-> h.val]
                     : h \in sys_ioctl(b.w, fd, "RD_SPEED", 0) }
              : b \in sys_ioctl(m.w, fd, "RD_BPW", 0) }
            : m \in ioctl_read_mode(w, fd) }

\* variant: a failed speed write does not stop the apply
ioctl_write_config_nostop(w, fd, cfg) ==
    UNION { IF m.rc < 0 THEN {[w |-> m.w, rc |-> -1]}
            ELSE UNION {
              { [w |-> b.w, rc |-> IF s.rc < 0 \/ b.rc < 0 THEN -1 ELSE 0]
                : b \in sys_ioctl(s.w, fd, "WR_BPW", cfg.bits_per_word) }
              : s \in sys_ioctl(m.w, fd, "WR_SPEED", cfg.speed_hz) }
            : m \in ioctl_write_mode(w, fd, cfg_to_mode_mask(cfg)) }

\* outcomes [w, rc]
ioctl_write_config(w, fd, cfg) ==
    UNION { IF m.rc < 0 THEN {[w |-> m.w, rc |-> -1]}
            ELSE UNION {
              IF s.rc < 0 THEN {[w |-> s.w, rc |-> -1]}
              ELSE { [w |-> b.w, rc |-> IF b.rc < 0 THEN -1 ELSE 0]
                     : b \in sys_ioctl(s.w, fd, "WR_BPW", cfg.bits_per_word) }
              : s \in sys_ioctl(m.w, fd, "WR_SPEED", cfg.speed_hz) }
            : m \in ioctl_write_mode(w, fd, cfg_to_mode_mask(cfg)) }

(***************************************************************************)
(* High-level configuration helpers: outcomes [w, rc, cfg], cfg being the  *)
(* caller's configuration object after the call.                           *)
(***************************************************************************)
read_device_config(w, fd, cfg) ==
    { IF r.rc < 0
      THEN [w |-> r.w, rc |-> spm_map_errno(r.w.errno), cfg |-> cfg]
      ELSE [w |-> r.w, rc |-> SPM_OK, cfg |-> fill_config(cfg, r.mode, r.bpw, r.hz)]
      : r \in ioctl_read_config(w, fd) }

\* variant: the read-back is made but the requested values are kept
write_device_config_trusting(w, fd, cfg) ==
    UNION { IF wr.rc < 0
            THEN {[w |-> wr.w, rc |-> spm_map_errno(wr.w.errno), cfg |-> cfg]}
            ELSE UNION {
              { [w |-> rd.w, rc |-> rd.rc, cfg |-> cfg]
                : rd \in read_device_config(wr.w, fd, actual_cfg) }
              : actual_cfg \in UninitCfgs }
            : wr \in ioctl_write_config(w, fd, cfg) }

\* actual_cfg starts uninitialized; *cfg is overwritten with it only when
\* the read-back reports SPM_OK
write_device_config(w, fd, cfg) ==
    UNION { IF wr.rc < 0
            THEN {[w |-> wr.w, rc |-> spm_map_errno(wr.w.errno), cfg |-> cfg]}
            ELSE UNION {
              { IF rd.rc # SPM_OK
                THEN [w |-> rd.w, rc |-> rd.rc, cfg |-> cfg]
                ELSE [w |-> rd.w, rc |-> SPM_OK, cfg |-> rd.cfg]
                : rd \in read_device_config(wr.w, fd, actual_cfg) }
              : actual_cfg \in UninitCfgs }
            : wr \in ioctl_write_config(w, fd, cfg) }


(***************************************************************************)
(* Public operations. The caller passes its handle; v is what the library  *)
(* sees through it: v.p is "null", "live" or "freed" (a handle kept after  *)
(* spm_dev_close: reading it is undefined, the freed block may still hold  *)
(* the old fields or anything else). Outcomes are [rc, w, d, out]: result  *)
(* code, world, session fields, and the caller's output object.            *)
(***************************************************************************)
v_sys_is_valid(s) == s = "full"

v_fd_is_valid(fd) == fd >= 0

v_dev_is_valid(v) == v.p # "null" /\ v.d.sys /\ v_fd_is_valid(v.d.fd)

Ret(rc, w, d, out) == [rc |-> rc, w |-> w, d |-> d, out |-> out]

\* VALIDATE_PARAM failing in function func
ParamError(w, d, func) ==
    Ret(SPM_EPARAM, w,
        [d EXCEPT !.err = spm_set_error(SPM_EPARAM, w.errno, func)], ZeroCfg)

\* variant: the descriptor leaves delay and chip-select toggle at zero
TransferDesc_nopolicy(d, tx, rx, len) ==
    [tx |-> tx, rx |-> rx, len |-> U32(len),
     speed_hz |-> d.cfg.speed_hz, bits_per_word |-> d.cfg.bits_per_word,
     cs_change |-> 0, delay_usecs |-> 0]

\* the descriptor spm_transfer builds from the cached configuration
TransferDesc(d, tx, rx, len) ==
    [tx |-> tx, rx |-> rx, len |-> U32(len),
     speed_hz |-> d.cfg.speed_hz, bits_per_word |-> d.cfg.bits_per_word,
     cs_change |-> d.cfg.cs_change, delay_usecs |-> d.cfg.delay_usecs]

\* the message ioctl: logged with the descriptors it carries
sys_message(w, fd, trs) ==
    { [r EXCEPT !.w.calls[Len(r.w.calls)].trs = trs]
      : r \in sys_ioctl(w, fd, "MESSAGE", Len(trs)) }

\* variant: the length is not validated
spm_transfer_nolen(w, v, tx, rx, len) ==
    IF ~v_dev_is_valid(v) THEN {Ret(SPM_ESTATE, w, v.d, ZeroCfg)}
    ELSE IF ~(tx # 0 \/ rx # 0) THEN {ParamError(w, v.d, "spm_transfer")}
    ELSE { IF r.rc < 0
           THEN Ret(spm_map_errno(r.w.errno), r.w,
                    [v.d EXCEPT !.err = spm_set_error(spm_map_errno(r.w.errno),
                                                      r.w.errno, "spm_transfer")],
                    ZeroCfg)
           ELSE Ret(SPM_OK, r.w, v.d, ZeroCfg)
           : r \in sys_message(w, v.d.fd, <<TransferDesc(v.d, tx, rx, len)>>) }

spm_transfer(w, v, tx, rx, len) ==
    IF ~v_dev_is_valid(v) THEN {Ret(SPM_ESTATE, w, v.d, ZeroCfg)}
    ELSE IF ~(tx # 0 \/ rx # 0) THEN {ParamError(w, v.d, "spm_transfer")}
    ELSE IF ~(~SizeIsZero(len) /\ SizeLeq(len, UINT32_MAX))
    THEN {ParamError(w, v.d, "spm_transfer")}
    ELSE { IF r.rc < 0
           THEN Ret(spm_map_errno(r.w.errno), r.w,
                    [v.d EXCEPT !.err = spm_set_error(spm_map_errno(r.w.errno),
                                                      r.w.errno, "spm_transfer")],
                    ZeroCfg)
           ELSE Ret(SPM_OK, r.w, v.d, ZeroCfg)
           : r \in sys_message(w, v.d.fd, <<TransferDesc(v.d, tx, rx, len)>>) }

spm_write(w, v, tx, len) ==
    IF ~v_dev_is_valid(v) THEN {Ret(SPM_ESTATE, w, v.d, ZeroCfg)}
    ELSE IF ~(tx # 0 /\ ~SizeIsZero(len)) THEN {ParamError(w, v.d, "spm_write")}
    ELSE spm_transfer(w, v, tx, 0, len)

spm_read(w, v, rx, len) ==
    IF ~v_dev_is_valid(v) THEN {Ret(SPM_ESTATE, w, v.d, ZeroCfg)}
    ELSE IF ~(rx # 0 /\ ~SizeIsZero(len)) THEN {ParamError(w, v.d, "spm_read")}
    ELSE spm_transfer(w, v, 0, rx, len)

\* variant: a successful query also stores what it read in the cache
spm_dev_get_cfg_caching(w, v, out_null, out_cfg) ==
    IF ~v_dev_is_valid(v) THEN {Ret(SPM_ESTATE, w, v.d, out_cfg)}
    ELSE IF out_null THEN {ParamError(w, v.d, "spm_dev_get_cfg")}
    ELSE { IF r.rc # SPM_OK
           THEN Ret(r.rc, r.w,
                    [v.d EXCEPT !.err = spm_set_error(r.rc, r.w.errno, "spm_dev_get_cfg")],
                    r.cfg)
           ELSE Ret(SPM_OK, r.w, [v.d EXCEPT !.cfg = r.cfg], r.cfg)
           : r \in read_device_config(w, v.d.fd, out_cfg) }

spm_dev_get_cfg(w, v, out_null, out_cfg) ==
    IF ~v_dev_is_valid(v) THEN {Ret(SPM_ESTATE, w, v.d, out_cfg)}
    ELSE IF out_null THEN {ParamError(w, v.d, "spm_dev_get_cfg")}
    ELSE { IF r.rc # SPM_OK
           THEN Ret(r.rc, r.w,
                    [v.d EXCEPT !.err = spm_set_error(r.rc, r.w.errno, "spm_dev_get_cfg")],
                    r.cfg)
           ELSE Ret(SPM_OK, r.w, v.d, r.cfg)
           : r \in read_device_config(w, v.d.fd, out_cfg) }

\* variant: the cache is assigned before the result is looked at
spm_dev_set_cfg_eager(w, v, cfg_null, cfg) ==
    IF ~v_dev_is_valid(v) THEN {Ret(SPM_ESTATE, w, v.d, ZeroCfg)}
    ELSE IF cfg_null THEN {ParamError(w, v.d, "spm_dev_set_cfg")}
    ELSE { IF r.rc # SPM_OK
           THEN Ret(r.rc, r.w,
                    [v.d EXCEPT !.cfg = r.cfg,
                                !.err = spm_set_error(r.rc, r.w.errno, "spm_dev_set_cfg")],
                    ZeroCfg)
           ELSE Ret(SPM_OK, r.w, [v.d EXCEPT !.cfg = r.cfg], ZeroCfg)
           : r \in write_device_config(w, v.d.fd, sanitize_cfg(cfg)) }

spm_dev_set_cfg(w, v, cfg_null, cfg) ==
    IF ~v_dev_is_valid(v) THEN {Ret(SPM_ESTATE, w, v.d, ZeroCfg)}
    ELSE IF cfg_null THEN {ParamError(w, v.d, "spm_dev_set_cfg")}
    ELSE { IF r.rc # SPM_OK
           THEN Ret(r.rc, r.w,
                    [v.d EXCEPT !.err = spm_set_error(r.rc, r.w.errno, "spm_dev_set_cfg")],
                    ZeroCfg)
           ELSE Ret(SPM_OK, r.w, [v.d EXCEPT !.cfg = r.cfg], ZeroCfg)
           : r \in write_device_config(w, v.d.fd, sanitize_cfg(cfg)) }

spm_dev_refresh_cfg(w, v) ==
    IF ~v_dev_is_valid(v) THEN {Ret(SPM_ESTATE, w, v.d, ZeroCfg)}
    ELSE { IF r.rc # SPM_OK
           THEN Ret(r.rc, r.w,
                    [v.d EXCEPT !.cfg = r.cfg,
                                !.err = spm_set_error(r.rc, r.w.errno, "spm_dev_refresh_cfg")],
                    ZeroCfg)
           ELSE Ret(SPM_OK, r.w, [v.d EXCEPT !.cfg = r.cfg], ZeroCfg)
           : r \in read_device_config(w, v.d.fd, v.d.cfg) }

\* variant: a speed of 0 is passed on and replaced by the default
spm_dev_set_speed_lenient(w, v, speed_hz) ==
    IF ~v_dev_is_valid(v) THEN {Ret(SPM_ESTATE, w, v.d, ZeroCfg)}
    ELSE spm_dev_set_cfg(w, v, FALSE, [v.d.cfg EXCEPT !.speed_hz = speed_hz])

\* variant: the speed is validated before the session
spm_dev_set_speed_paramfirst(w, v, speed_hz) ==
    IF ~(speed_hz > 0) THEN {ParamError(w, v.d, "spm_dev_set_speed")}
    ELSE IF ~v_dev_is_valid(v) THEN {Ret(SPM_ESTATE, w, v.d, ZeroCfg)}
    ELSE spm_dev_set_cfg(w, v, FALSE, [v.d.cfg EXCEPT !.speed_hz = speed_hz])

spm_dev_set_speed(w, v, speed_hz) ==
    IF ~v_dev_is_valid(v) THEN {Ret(SPM_ESTATE, w, v.d, ZeroCfg)}
    ELSE IF ~(speed_hz > 0) THEN {ParamError(w, v.d, "spm_dev_set_speed")}
    ELSE spm_dev_set_cfg(w, v, FALSE, [v.d.cfg EXCEPT !.speed_hz = speed_hz])

spm_dev_set_mode(w, v, mode) ==
    IF ~v_dev_is_valid(v) THEN {Ret(SPM_ESTATE, w, v.d, ZeroCfg)}
    ELSE spm_dev_set_cfg(w, v, FALSE, [v.d.cfg EXCEPT !.mode = mode])

spm_dev_set_bpw(w, v, bpw) ==
    IF ~v_dev_is_valid(v) THEN {Ret(SPM_ESTATE, w, v.d, ZeroCfg)}
    ELSE spm_dev_set_cfg(w, v, FALSE, [v.d.cfg EXCEPT !.bits_per_word = bpw])

\* calloc: outcomes [w, ok]
Calloc(w) ==
    {[w |-> w, ok |-> TRUE]}
    \cup (IF w.faults >= MaxFaults THEN {}
          ELSE {[w |-> [w EXCEPT !.faults = @ + 1], ok |-> FALSE]})

\* variant: the length is only checked against zero
XferInvalid_nomax(x) ==
    \/ x.tx = 0 /\ x.rx = 0
    \/ SizeIsZero(x.len)

\* the checks the loop of ioctl_build_kernel_transfers makes on a descriptor
XferInvalid(x) ==
    \/ x.tx = 0 /\ x.rx = 0
    \/ SizeIsZero(x.len) \/ ~SizeLeq(x.len, UINT32_MAX)

\* variant: the overrides of a descriptor are ignored
KernelTransfer_cached(d, x) ==
    [tx |-> x.tx, rx |-> x.rx, len |-> U32(x.len),
     speed_hz |-> d.cfg.speed_hz,
     bits_per_word |-> d.cfg.bits_per_word,
     delay_usecs |-> x.delay_usecs,
     cs_change |-> IF x.cs_change # 0 THEN 1 ELSE 0]

\* the low-level descriptor the loop stores for descriptor x
KernelTransfer(d, x) ==
    [tx |-> x.tx, rx |-> x.rx, len |-> U32(x.len),
     speed_hz |-> IF x.speed_hz # 0 THEN x.speed_hz ELSE d.cfg.speed_hz,
     bits_per_word |-> IF x.bits_per_word # 0 THEN x.bits_per_word
                       ELSE d.cfg.bits_per_word,
     delay_usecs |-> x.delay_usecs,
     cs_change |-> IF x.cs_change # 0 THEN 1 ELSE 0]

\* the loop runs up to the first invalid descriptor, where it records
\* SPM_EPARAM and returns; outcome [rc, d, trs], trs being what was stored
ioctl_build_kernel_transfers(d, errno_, xfers, count) ==
    LET bad == {i \in 1..count : XferInvalid(xfers[i])}
        stop == IF bad = {} THEN count + 1
                ELSE CHOOSE i \in bad : \A j \in bad : i <= j
        trs == [i \in 1..(stop - 1) |-> KernelTransfer(d, xfers[i])]
    IN IF stop <= count
       THEN [rc |-> SPM_EPARAM,
             d |-> [d EXCEPT !.err = spm_set_error(SPM_EPARAM, errno_,
                                                  "ioctl_build_kernel_transfers")],
             trs |-> trs]
       ELSE [rc |-> SPM_OK, d |-> d, trs |-> trs]

\* free(heap_trs) when the array came from the heap
FreeIf(w, heap_trs) ==
    IF heap_trs THEN [w EXCEPT !.heap = Append(@, "free")] ELSE w

\* the array of low-level descriptors: alloca up to the threshold, calloc
\* above it; outcomes [w, ok, heap_trs]
AllocTrs(w, count) ==
    IF count <= SPM_BATCH_STACK_THRESHOLD
    THEN {[w |-> w, ok |-> TRUE, heap_trs |-> FALSE]}
    ELSE { [w |-> IF a.ok THEN [a.w EXCEPT !.heap = Append(@, "calloc")] ELSE a.w,
            ok |-> a.ok, heap_trs |-> a.ok] : a \in Calloc(w) }

\* variant: the heap array is not released when a descriptor is invalid
spm_batch_leaky(w, v, xfers_null, xfers, count) ==
    IF ~v_dev_is_valid(v) THEN {Ret(SPM_ESTATE, w, v.d, ZeroCfg)}
    ELSE IF ~(~xfers_null /\ count > 0 /\ count <= SPM_MAX_BATCH_XFERS)
    THEN {ParamError(w, v.d, "spm_batch")}
    ELSE UNION {
      IF ~a.ok
      THEN {Ret(SPM_ENOMEM, a.w,
                [v.d EXCEPT !.err = spm_set_error(SPM_ENOMEM, a.w.errno, "spm_batch")],
                ZeroCfg)}
      ELSE LET b == ioctl_build_kernel_transfers(v.d, a.w.errno, xfers, count)
           IN IF b.rc # SPM_OK
              THEN {Ret(b.rc, a.w, b.d, ZeroCfg)}
              ELSE { IF r.rc < 0
                     THEN Ret(spm_map_errno(r.w.errno), FreeIf(r.w, a.heap_trs),
                              [v.d EXCEPT !.err =
                                   spm_set_error(spm_map_errno(r.w.errno),
                                                 r.w.errno, "spm_batch")],
                              ZeroCfg)
                     ELSE Ret(SPM_OK, FreeIf(r.w, a.heap_trs), v.d, ZeroCfg)
                     : r \in sys_message(a.w, v.d.fd, b.trs) }
      : a \in AllocTrs(w, count) }

spm_batch(w, v, xfers_null, xfers, count) ==
    IF ~v_dev_is_valid(v) THEN {Ret(SPM_ESTATE, w, v.d, ZeroCfg)}
    ELSE IF ~(~xfers_null /\ count > 0 /\ count <= SPM_MAX_BATCH_XFERS)
    THEN {ParamError(w, v.d, "spm_batch")}
    ELSE UNION {
      IF ~a.ok
      THEN {Ret(SPM_ENOMEM, a.w,
                [v.d EXCEPT !.err = spm_set_error(SPM_ENOMEM, a.w.errno, "spm_batch")],
                ZeroCfg)}
      ELSE LET b == ioctl_build_kernel_transfers(v.d, a.w.errno, xfers, count)
           IN IF b.rc # SPM_OK
              THEN {Ret(b.rc, FreeIf(a.w, a.heap_trs), b.d, ZeroCfg)}
              ELSE { IF r.rc < 0
                     THEN Ret(spm_map_errno(r.w.errno), FreeIf(r.w, a.heap_trs),
                              [v.d EXCEPT !.err =
                                   spm_set_error(spm_map_errno(r.w.errno),
                                                 r.w.errno, "spm_batch")],
                              ZeroCfg)
                     ELSE Ret(SPM_OK, FreeIf(r.w, a.heap_trs), v.d, ZeroCfg)
                     : r \in sys_message(a.w, v.d.fd, b.trs) }
      : a \in AllocTrs(w, count) }

\* the caller's buffer of size bytes before the call
Untouched(size) == [i \in 1..size |-> "?"]

\* strncpy(out_path, path, size - 1); out_path[size - 1] = '\0'
Strncpy(path, size) ==
    [i \in 1..size |-> IF i <= size - 1 /\ i <= Len(path) THEN path[i] ELSE "NUL"]

\* variant: a buffer too small gets as much of the path as fits
spm_dev_get_path_truncating(w, v, out_null, size) ==
    IF ~v_dev_is_valid(v) THEN {Ret(SPM_ESTATE, w, v.d, Untouched(size))}
    ELSE IF out_null \/ size = 0 THEN {Ret(SPM_EPARAM, w, v.d, Untouched(size))}
    ELSE {Ret(SPM_OK, w, v.d, Strncpy(v.d.path, size))}

spm_dev_get_path(w, v, out_null, size) ==
    IF ~v_dev_is_valid(v) THEN {Ret(SPM_ESTATE, w, v.d, Untouched(size))}
    ELSE IF out_null \/ size = 0 THEN {Ret(SPM_EPARAM, w, v.d, Untouched(size))}
    ELSE IF Len(v.d.path) >= size THEN {Ret(SPM_EPARAM, w, v.d, Untouched(size))}
    ELSE {Ret(SPM_OK, w, v.d, Strncpy(v.d.path, size))}

\* out is *out_fd afterwards, -1 standing for what the caller had there
spm_dev_get_fd(w, v, out_null) ==
    IF ~v_dev_is_valid(v) THEN {Ret(SPM_ESTATE, w, v.d, -1)}
    ELSE IF out_null THEN {Ret(SPM_EPARAM, w, v.d, -1)}
    ELSE {Ret(SPM_OK, w, v.d, v.d.fd)}

\* outcomes [rc, w, d, freed]: free(dev) runs on every path with dev # NULL
spm_dev_close(w, v) ==
    IF v.p = "null" THEN {[rc |-> SPM_EPARAM, w |-> w, d |-> v.d, freed |-> FALSE]}
    ELSE IF v.d.sys /\ v.d.fd >= 0
    THEN { IF r.rc < 0
           THEN [rc |-> spm_map_errno(r.w.errno), w |-> r.w,
                 d |-> [v.d EXCEPT !.err = spm_set_error(spm_map_errno(r.w.errno),
                                                        r.w.errno, "spm_dev_close")],
                 freed |-> TRUE]
           ELSE [rc |-> SPM_OK, w |-> r.w, d |-> v.d, freed |-> TRUE]
           : r \in sys_close(w, v.d.fd) }
    ELSE {[rc |-> SPM_OK, w |-> w, d |-> v.d, freed |-> TRUE]}

\* variant: the fail label without the close_ call
OpenFail_leak(w, fd, rc) ==
    {[rc |-> rc, w |-> w, d |-> NoDev, made |-> FALSE, out_dev |-> "null"]}

\* the fail label of spm_dev_open_sys_ops: close_(fd), free(dev), *out_dev = NULL
OpenFail(w, fd, rc) ==
    { [rc |-> rc, w |-> c.w, d |-> NoDev, made |-> FALSE, out_dev |-> "null"]
      : c \in sys_close(w, fd) }

\* decimal digits of an unsigned number (%u)
RECURSIVE Dec(_)
Dec(n) ==
    LET digit == <<"0", "1", "2", "3", "4", "5", "6", "7", "8", "9">>
    IN IF n < 10 THEN <<digit[n + 1]>> ELSE Dec(n \div 10) \o <<digit[(n % 10) + 1]>>

\* the text "/dev/spidev%u.%u" formats
DevPath(bus, cs) ==
    <<"/", "d", "e", "v", "/", "s", "p", "i", "d", "e", "v">>
        \o Dec(bus) \o <<".">> \o Dec(cs)

\* snprintf into a buffer of size bytes keeps at most size - 1 characters
Snprintf(size, text) ==
    IF Len(text) <= size - 1 THEN text ELSE SubSeq(text, 1, size - 1)

\* outcomes [rc, w, d, made, out_dev]: made says a session is handed out,
\* out_dev is what *out_dev holds afterwards ("keep": not written)
spm_dev_open_sys_ops(w, bus, cs, cfg_null, cfg, sys, out_null) ==
    IF out_null \/ ~v_sys_is_valid(IF sys = "null" THEN "full" ELSE sys)
    THEN {[rc |-> SPM_EPARAM, w |-> w, d |-> NoDev, made |-> FALSE, out_dev |-> "keep"]}
    ELSE UNION {
      IF o.rc < 0
      THEN {[rc |-> spm_map_errno(o.w.errno), w |-> o.w, d |-> NoDev,
             made |-> FALSE, out_dev |-> "keep"]}
      ELSE UNION {
        IF ~a.ok THEN OpenFail(a.w, o.rc, SPM_ENOMEM)
        ELSE UNION {
          IF r.rc # SPM_OK THEN OpenFail(r.w, o.rc, r.rc)
          ELSE {[rc |-> SPM_OK, w |-> r.w,
                 d |-> [fd |-> o.rc, cfg |-> r.cfg,
                       path |-> Snprintf(SPM_PATH_MAX, Snprintf(SPM_PATH_MAX, DevPath(bus, cs))),
                       err |-> NoErr, sys |-> TRUE],
                 made |-> TRUE, out_dev |-> "ptr"]}
          : r \in write_device_config(a.w, o.rc,
                     sanitize_cfg(IF cfg_null THEN get_default_cfg ELSE cfg)) }
        : a \in Calloc(o.w) }
      : o \in sys_open(w) }


(***************************************************************************)
(* Inputs the callers draw from.                                           *)
(***************************************************************************)
CfgInputs ==
    { [mode |-> 3, speed_hz |-> 500000, bits_per_word |-> 16, lsb_first |-> 1,
       cs_active_high |-> 0, delay_usecs |-> 10, cs_change |-> 1],
      [mode |-> 4, speed_hz |-> 0, bits_per_word |-> 0, lsb_first |-> 0,
       cs_active_high |-> 1, delay_usecs |-> 0, cs_change |-> 0],
      [mode |-> 1, speed_hz |-> 30000000, bits_per_word |-> 33, lsb_first |-> 0,
       cs_active_high |-> 0, delay_usecs |-> 10, cs_change |-> 0] }

\* the bus and chip select a session is opened on
BusInput == 1
CsInput == 0
\* uint8_t bus and cs values tried where the path or the numbers matter
BusInputs == {BusInput, 20, 255}
CsInputs == {CsInput, 5}

SpeedInputs == {0, 500000, 30000000}
ModeInputs == {3, 4}
BpwInputs == {0, 16, 33}
LenInputs == {Size(0, 0), UINT32_MAX, Size(Limb, 0)}
BufInputs == {0, 1}

\* batch descriptors: the i-th valid one is recognisable by its length and
\* delay, and every second or third one carries an override; the word-size
\* override of every fifth is above the range of sanitize_cfg, that of every
\* seventh below it
GoodXfer(i) ==
    [tx |-> 1, rx |-> i % 2, len |-> Size(0, i),
     speed_hz |-> IF i % 2 = 0 THEN 2000000 ELSE 0,
     bits_per_word |-> IF i % 3 = 0 THEN 16
                       ELSE IF i % 5 = 0 THEN 64
                       ELSE IF i % 7 = 0 THEN 4 ELSE 0,
     delay_usecs |-> i, cs_change |-> i % 2]

BadKinds == {"nobuf", "len0", "lenbig"}

BadXfer(kind, i) ==
    CASE kind = "nobuf" -> [GoodXfer(i) EXCEPT !.tx = 0, !.rx = 0]
      [] kind = "len0" -> [GoodXfer(i) EXCEPT !.len = Size(0, 0)]
      [] kind = "lenbig" -> [GoodXfer(i) EXCEPT !.len = Size(Limb, 0)]

\* an array of n descriptors, valid except the one at index k (k = 0: none)
BatchArray(n, k, kind) ==
    [i \in 1..n |-> IF i = k THEN BadXfer(kind, i) ELSE GoodXfer(i)]

\* positions of the invalid descriptor tried for a count: none, first, last
BadAt(count) == {0, 1, count}

BatchCounts == {0, 1, 3}
LargeCounts == {SPM_BATCH_STACK_THRESHOLD, SPM_BATCH_STACK_THRESHOLD + 1,
                SPM_MAX_BATCH_XFERS, SPM_MAX_BATCH_XFERS + 1}
\* buffer sizes passed to spm_dev_get_path
PathSizes == {0, Len(DevPath(BusInput, CsInput)), Len(DevPath(BusInput, CsInput)) + 1,
              SPM_PATH_MAX}

\* buffers of no byte, of just the length of the path, of one more, and of
\* SPM_PATH_MAX bytes
PathSizesFor(path) == {0, Len(path), Len(path) + 1, SPM_PATH_MAX}

(***************************************************************************)
(* What the library sees through the caller's handle.                      *)
(***************************************************************************)
DevViews ==
    IF handle = "null" THEN {[p |-> "null", d |-> NoDev]}
    ELSE IF sess = "live" THEN {[p |-> "live", d |-> dev]}
    ELSE {[p |-> "freed", d |-> dev], [p |-> "freed", d |-> NoDev]}

\* no syscall and no allocation made
NoCalls == [calls |-> <<>>, heap |-> <<>>]

\* the record of a call: its name, result, syscalls, what the handle pointed
\* to, the session fields the library saw on entry and left on return, the
\* configuration passed in, the other arguments, and the caller's output
\* object afterwards
LastRec(op, rc, w, v, req, xin, out) ==
    [op |-> op, rc |-> rc, calls |-> w.calls, heap |-> w.heap, p |-> v.p,
     pre |-> v.d, post |-> v.d,
     req |-> req, xin |-> xin, out |-> out]

NoXfer == [tx |-> 0, rx |-> 0, len |-> Size(0, 0)]

CfgOps == {"open", "set_cfg", "set_speed", "set_mode", "set_bpw", "refresh_cfg"}

\* a call is tried with at most one of two arguments out of the ordinary
OneFault(a, b) == ~(a /\ b)

\* the caller is between two calls, and may make another
Ready == last.op = "none" /\ nOps < MaxOps

\* the call ran to the end of its read-back: its last syscall is a successful
\* read of the speed
Completed(calls) ==
    /\ calls # <<>>
    /\ calls[Len(calls)].req = "RD_SPEED"
    /\ calls[Len(calls)].ok

\* the state after a call on the session that ended with outcome r
Commit(op, v, r, req, xin) ==
    /\ nOps' = nOps + 1
    /\ drv' = r.w.drv
    /\ errno' = r.w.errno
    /\ osOpen' = r.w.open
    /\ closes' = r.w.closes
    /\ nOpens' = r.w.nopens
    /\ nFaults' = r.w.faults
    /\ dev' = IF v.p = "live" THEN r.d ELSE dev
    /\ last' = [LastRec(op, r.rc, r.w, v, req, xin, r.out) EXCEPT !.post = r.d]
    /\ lastCfg' = IF op \in CfgOps /\ v.p = "live" /\ r.w.calls # <<>>
                  THEN Completed(r.w.calls) ELSE lastCfg
    /\ UNCHANGED <<legacy, sess, handle, thr>>

(***************************************************************************)
(* Actions: one per public function.                                       *)
(***************************************************************************)
Init ==
    /\ drv = [mode |-> 0, bpw |-> 8, hz |-> 1000000]
    /\ legacy \in BOOLEAN
    /\ nFaults = 0
    /\ errno = 0
    /\ osOpen = {}
    /\ nOpens = 0
    /\ closes = [i \in 1..MaxOpens |-> 0]
    /\ sess = "none"
    /\ dev = NoDev
    /\ handle = "null"
    /\ last = LastRec("none", SPM_OK, NoCalls, [p |-> "null", d |-> NoDev], ZeroCfg, NoXfer, ZeroCfg)
    /\ lastCfg = FALSE
    /\ nOps = 0
    /\ thr = NoThreads

OpenWith(buses, css) ==
    /\ Ready
    /\ nOpens < MaxOpens
    /\ sess # "live"
    /\ \E cfg_null \in BOOLEAN, cfg \in CfgInputs,
          sys \in {"null", "full", "incomplete"}, out_null \in BOOLEAN,
          bus \in buses, cs \in css :
         /\ cfg_null => cfg = CHOOSE c \in CfgInputs : TRUE
         /\ \E r \in spm_dev_open_sys_ops(World, bus, cs, cfg_null, cfg, sys, out_null) :
              /\ nOps' = nOps + 1
              /\ drv' = r.w.drv
              /\ errno' = r.w.errno
              /\ osOpen' = r.w.open
              /\ closes' = r.w.closes
              /\ nOpens' = r.w.nopens
              /\ nFaults' = r.w.faults
              /\ UNCHANGED <<legacy, thr>>
              /\ sess' = IF r.made THEN "live" ELSE sess
              /\ dev' = IF r.made THEN r.d ELSE dev
              /\ handle' = IF r.out_dev = "keep" THEN handle ELSE r.out_dev
              /\ last' = LastRec("open", r.rc, r.w,
                                 [p |-> IF r.made THEN "live" ELSE "null", d |-> NoDev],
                                 IF cfg_null THEN get_default_cfg ELSE cfg,
                                 [bus |-> bus, cs |-> cs, sys |-> sys,
                                  out_null |-> out_null],
                                 ZeroCfg)
              /\ lastCfg' = IF r.made THEN Completed(r.w.calls) ELSE lastCfg

Open == OpenWith({BusInput}, {CsInput})

Close ==
    /\ Ready
    /\ \E v \in DevViews : \E r \in spm_dev_close(World, v) :
         /\ nOps' = nOps + 1
         /\ drv' = r.w.drv
         /\ errno' = r.w.errno
         /\ osOpen' = r.w.open
         /\ closes' = r.w.closes
         /\ nOpens' = r.w.nopens
         /\ nFaults' = r.w.faults
         /\ UNCHANGED <<legacy, thr>>
         /\ sess' = IF r.freed THEN "freed" ELSE sess
         /\ dev' = IF v.p = "live" THEN r.d ELSE dev
         /\ last' = LastRec("close", r.rc, r.w, v, ZeroCfg, NoXfer, ZeroCfg)
         /\ UNCHANGED <<handle, lastCfg>>

Transfer ==
    /\ Ready
    /\ \E v \in DevViews, tx \in BufInputs, rx \in BufInputs, len \in LenInputs :
      /\ OneFault(tx = 0 /\ rx = 0, len # UINT32_MAX)
      /\ \E r \in spm_transfer(World, v, tx, rx, len) :
           Commit("transfer", v, r, ZeroCfg, [tx |-> tx, rx |-> rx, len |-> len])

Write ==
    /\ Ready
    /\ \E v \in DevViews, tx \in BufInputs, len \in LenInputs :
      /\ OneFault(tx = 0, len # UINT32_MAX)
      /\ \E r \in spm_write(World, v, tx, len) :
           Commit("write", v, r, ZeroCfg, [tx |-> tx, rx |-> 0, len |-> len])

Read ==
    /\ Ready
    /\ \E v \in DevViews, rx \in BufInputs, len \in LenInputs :
      /\ OneFault(rx = 0, len # UINT32_MAX)
      /\ \E r \in spm_read(World, v, rx, len) :
           Commit("read", v, r, ZeroCfg, [tx |-> 0, rx |-> rx, len |-> len])

GetCfg ==
    /\ Ready
    /\ \E v \in DevViews, out_null \in BOOLEAN :
      \E r \in spm_dev_get_cfg(World, v, out_null, ZeroCfg) :
        Commit("get_cfg", v, r, ZeroCfg, [NoXfer EXCEPT !.rx = IF out_null THEN 0 ELSE 1])

SetCfg ==
    /\ Ready
    /\ \E v \in DevViews, cfg_null \in BOOLEAN, cfg \in CfgInputs :
      /\ cfg_null => cfg = CHOOSE c \in CfgInputs : TRUE
      /\ \E r \in spm_dev_set_cfg(World, v, cfg_null, cfg) :
           Commit("set_cfg", v, r, IF cfg_null THEN ZeroCfg ELSE cfg,
                  [NoXfer EXCEPT !.tx = IF cfg_null THEN 0 ELSE 1])

RefreshCfg ==
    /\ Ready
    /\ \E v \in DevViews : \E r \in spm_dev_refresh_cfg(World, v) :
      Commit("refresh_cfg", v, r, ZeroCfg, NoXfer)

SetSpeed ==
    /\ Ready
    /\ \E v \in DevViews, speed_hz \in SpeedInputs :
      \E r \in spm_dev_set_speed(World, v, speed_hz) :
        Commit("set_speed", v, r, [v.d.cfg EXCEPT !.speed_hz = speed_hz], NoXfer)

SetMode ==
    /\ Ready
    /\ \E v \in DevViews, mode \in ModeInputs :
      \E r \in spm_dev_set_mode(World, v, mode) :
        Commit("set_mode", v, r, [v.d.cfg EXCEPT !.mode = mode], NoXfer)

SetBpw ==
    /\ Ready
    /\ \E v \in DevViews, bpw \in BpwInputs :
      \E r \in spm_dev_set_bpw(World, v, bpw) :
        Commit("set_bpw", v, r, [v.d.cfg EXCEPT !.bits_per_word = bpw], NoXfer)

\* spm_batch with an input drawn from counts
BatchWith(counts) ==
    /\ Ready
    /\ \E v \in DevViews, xfers_null \in BOOLEAN, count \in counts :
       \E k \in BadAt(count), kind \in BadKinds :
         /\ k = 0 => kind = "nobuf"
         /\ xfers_null => (k = 0 /\ count = 1)
         /\ \E r \in spm_batch(World, v, xfers_null, BatchArray(count, k, kind), count) :
              Commit("batch", v, r, ZeroCfg,
                     [null |-> xfers_null, count |-> count, k |-> k, kind |-> kind])

Batch == BatchWith(BatchCounts)

\* batches around the stack threshold and the maximum count
BatchLarge == BatchWith(LargeCounts)

\* the buffer sizes tried are PathSizes, or with fit those around the
\* length of the session's own path
GetPathWith(fit) ==
    /\ Ready
    /\ \E v \in DevViews, out_null \in BOOLEAN :
       \E size \in IF fit THEN PathSizesFor(v.d.path) ELSE PathSizes :
      /\ OneFault(out_null, size # SPM_PATH_MAX)
      /\ \E r \in spm_dev_get_path(World, v, out_null, size) :
           Commit("get_path", v, r, ZeroCfg, [null |-> out_null, size |-> size])

GetPath == GetPathWith(FALSE)

GetPathAny == GetPathWith(TRUE)

\* sessions on other buses and chip selects
OpenAny == OpenWith(BusInputs, CsInputs)

GetFd ==
    /\ Ready
    /\ \E v \in DevViews, out_null \in BOOLEAN :
      \E r \in spm_dev_get_fd(World, v, out_null) :
        Commit("get_fd", v, r, ZeroCfg, [null |-> out_null])

\* the call has returned and the caller has looked at its results
Return ==
    /\ last.op # "none"
    /\ last' = LastRec("none", SPM_OK, NoCalls, [p |-> "null", d |-> NoDev], ZeroCfg, NoXfer, ZeroCfg)
    /\ UNCHANGED <<drv, legacy, errno, osOpen, nOpens, closes, nFaults, sess,
                   dev, handle, lastCfg, nOps, thr>>

Next ==
    \/ Return
    \/ Open
    \/ Close
    \/ Transfer
    \/ Write
    \/ Read
    \/ GetCfg
    \/ SetCfg
    \/ RefreshCfg
    \/ SetSpeed
    \/ SetMode
    \/ SetBpw
    \/ Batch
    \/ GetPath
    \/ GetFd

Spec == Init /\ [][Next]_vars

\* a caller that opens a session, changes its speed and submits large batches
NextBatch ==
    \/ Return
    \/ Open
    \/ SetSpeed
    \/ Batch
    \/ BatchLarge

SpecBatch == Init /\ [][NextBatch]_vars

\* opening on any bus and chip select, and asking for the path
NextOpen ==
    \/ Return
    \/ OpenAny
    \/ GetPathAny
    \/ Close

SpecOpen == Init /\ [][NextOpen]_vars

(***************************************************************************)
(* The error classifier on its own: errno holds any code and               *)
(* spm_map_errno is called on it.                                          *)
(***************************************************************************)
InitErrno ==
    /\ drv = [mode |-> 0, bpw |-> 8, hz |-> 1000000]
    /\ legacy \in BOOLEAN
    /\ nFaults = 0
    /\ errno \in 0..MaxErrno
    /\ osOpen = {}
    /\ nOpens = 0
    /\ closes = [i \in 1..MaxOpens |-> 0]
    /\ sess = "none"
    /\ dev = NoDev
    /\ handle = "null"
    /\ last = LastRec("none", SPM_OK, NoCalls, [p |-> "null", d |-> NoDev], ZeroCfg, NoXfer, ZeroCfg)
    /\ lastCfg = FALSE
    /\ nOps = 0
    /\ thr = NoThreads

MapErrno ==
    /\ last.op = "none"
    /\ last' = LastRec("map_errno", spm_map_errno(errno), NoCalls,
                       [p |-> "null", d |-> NoDev], ZeroCfg, NoXfer, ZeroCfg)
    /\ UNCHANGED <<drv, legacy, errno, osOpen, nOpens, closes, nFaults, sess,
                   dev, handle, lastCfg, nOps, thr>>

NextErrno ==
    \/ MapErrno
    \/ Return

SpecErrno == InitErrno /\ [][NextErrno]_vars

(***************************************************************************)
(* The configuration model on its own: a configuration is sanitized, and   *)
(* sanitized again; its mode and flags are encoded into a mode mask, and   *)
(* the mask is decoded.                                                    *)
(***************************************************************************)
\* configurations a caller may pass: modes in and out of range, word sizes
\* around both limits, speed 0, every combination of the flags
PureCfgs ==
    { [mode |-> m, speed_hz |-> s, bits_per_word |-> b, lsb_first |-> l,
       cs_active_high |-> h, delay_usecs |-> d, cs_change |-> c]
      : m \in 0..MaxMode, s \in {0, 1, SPM_DEFAULT_SPEED_HZ, 30000000},
        b \in {0, 7, 8, 9, 31, 32, 33, 255}, l \in {0, 1}, h \in {0, 1},
        d \in {0, 10}, c \in {0, 1} }

InitCfg ==
    /\ drv = [mode |-> 0, bpw |-> 8, hz |-> 1000000]
    /\ legacy = FALSE
    /\ nFaults = 0
    /\ errno = 0
    /\ osOpen = {}
    /\ nOpens = 0
    /\ closes = [i \in 1..MaxOpens |-> 0]
    /\ sess = "none"
    /\ dev = NoDev
    /\ handle = "null"
    /\ \E cfg \in PureCfgs :
         last = LastRec("none", SPM_OK, NoCalls, [p |-> "null", d |-> NoDev], cfg, NoXfer, ZeroCfg)
    /\ lastCfg = FALSE
    /\ nOps = 0
    /\ thr = NoThreads

\* sanitize_cfg(&cfg): out is the configuration afterwards
Sanitize ==
    /\ last.op = "none"
    /\ last' = [last EXCEPT !.op = "sanitize", !.out = sanitize_cfg(last.req)]
    /\ UNCHANGED <<drv, legacy, errno, osOpen, nOpens, closes, nFaults, sess,
                   dev, handle, lastCfg, nOps, thr>>

\* sanitize_cfg on the result: xin is what went in, out what came back
SanitizeAgain ==
    /\ last.op = "sanitize"
    /\ last' = [last EXCEPT !.op = "sanitize2", !.xin = last.out,
                            !.out = sanitize_cfg(last.out)]
    /\ UNCHANGED <<drv, legacy, errno, osOpen, nOpens, closes, nFaults, sess,
                   dev, handle, lastCfg, nOps, thr>>

\* cfg_to_mode_mask(&cfg): rc is the mask
EncodeMode ==
    /\ last.op = "none"
    /\ last' = [last EXCEPT !.op = "encode", !.rc = cfg_to_mode_mask(last.req)]
    /\ UNCHANGED <<drv, legacy, errno, osOpen, nOpens, closes, nFaults, sess,
                   dev, handle, lastCfg, nOps, thr>>

\* mask_to_mode(mask): out.mode is the mode
DecodeMode ==
    /\ last.op = "encode"
    /\ last' = [last EXCEPT !.op = "decode",
                            !.out = [ZeroCfg EXCEPT !.mode = mask_to_mode(last.rc)]]
    /\ UNCHANGED <<drv, legacy, errno, osOpen, nOpens, closes, nFaults, sess,
                   dev, handle, lastCfg, nOps, thr>>

NextCfg ==
    \/ Sanitize
    \/ SanitizeAgain
    \/ EncodeMode
    \/ DecodeMode

SpecCfg == InitCfg /\ [][NextCfg]_vars

(***************************************************************************)
(* The mode mask of a sanitized configuration on its way through the       *)
(* legacy write: encoded, cut to a byte, and decoded by fill_config.       *)
(***************************************************************************)
\* cfg_to_mode_mask(&cfg) on the sanitized configuration: xin is the
\* configuration encoded, rc the mask
EncodeSanitized ==
    /\ last.op = "sanitize"
    /\ last' = [last EXCEPT !.op = "mask", !.xin = last.out,
                            !.rc = cfg_to_mode_mask(last.out)]
    /\ UNCHANGED <<drv, legacy, errno, osOpen, nOpens, closes, nFaults, sess,
                   dev, handle, lastCfg, nOps, thr>>

\* uint8_t mode8 = (uint8_t)mode, and fill_config on the byte the driver got
FillFromMode8 ==
    /\ last.op = "mask"
    /\ \E into \in UninitCfgs :
         last' = [last EXCEPT !.op = "fill",
                              !.out = fill_config(into, U8(last.rc),
                                                  last.xin.bits_per_word,
                                                  last.xin.speed_hz)]
    /\ UNCHANGED <<drv, legacy, errno, osOpen, nOpens, closes, nFaults, sess,
                   dev, handle, lastCfg, nOps, thr>>

NextMask ==
    \/ Sanitize
    \/ EncodeSanitized
    \/ FillFromMode8

SpecMask == InitCfg /\ [][NextMask]_vars

(***************************************************************************)
(* Two threads on one session, without a lock. Thread t runs spm_transfer  *)
(* or spm_batch, thread c runs spm_dev_set_cfg or spm_dev_refresh_cfg. A   *)
(* step is one access to the session's cached configuration or one run of  *)
(* syscalls; the accesses of the two threads interleave freely. The copy   *)
(* dev->cfg = tmp of spm_dev_set_cfg is not atomic: it goes field by field *)
(* from either end of the struct. The reads of the initializer list of     *)
(* spm_transfer are indeterminately sequenced: they are made in any order. *)
(* fill_config stores its five fields in program order.                    *)
(***************************************************************************)
\* the fields of spm_cfg_t in declaration order
CopyOrder ==
    <<"mode", "speed_hz", "bits_per_word", "lsb_first", "cs_active_high",
      "delay_usecs", "cs_change">>

Reverse(s) == [i \in 1..Len(s) |-> s[Len(s) + 1 - i]]

\* the order of the assignments of fill_config
FillOrder == <<"mode", "cs_active_high", "lsb_first", "bits_per_word", "speed_hz">>

\* the length thread t passes to spm_transfer
RaceLen == UINT32_MAX

\* the descriptors thread t passes to spm_batch
RaceCount == 3

RaceXfers == BatchArray(RaceCount, 0, "nobuf")

\* the reads of the cached configuration a call makes, each a descriptor
\* index and a field: four for the descriptor of spm_transfer, and for a
\* batch the speed and word size of the descriptors without an override
CacheReads(kind) ==
    IF kind = "transfer"
    THEN {[i |-> 1, f |-> f] : f \in {"speed_hz", "bits_per_word", "cs_change", "delay_usecs"}}
    ELSE {[i |-> i, f |-> "speed_hz"] : i \in {j \in 1..RaceCount : RaceXfers[j].speed_hz = 0}}
         \cup {[i |-> i, f |-> "bits_per_word"]
               : i \in {j \in 1..RaceCount : RaceXfers[j].bits_per_word = 0}}

\* the descriptors before any field of the cache has been read into them
BlankDescs(kind) ==
    LET blank == [NoDev EXCEPT !.cfg = ZeroCfg]
    IN IF kind = "transfer"
       THEN <<TransferDesc(blank, 1, 0, RaceLen)>>
       ELSE [i \in 1..RaceCount |-> KernelTransfer(blank, RaceXfers[i])]

\* variant: the word size is left out of the copy
StoreField_nobpw(cfg, new, f) ==
    IF f = "bits_per_word" THEN cfg ELSE [cfg EXCEPT ![f] = new[f]]

\* one store of the copy dev->cfg = tmp, or of fill_config
StoreField(cfg, new, f) == [cfg EXCEPT ![f] = new[f]]

\* how far thread c is with its stores into dev->cfg
StorePhase ==
    IF thr.c.made = 0 THEN "before"
    ELSE IF thr.c.todo = <<>> THEN "after" ELSE "during"

\* the world before the first syscall of the program
FreshWorld ==
    [drv |-> [mode |-> 0, bpw |-> 8, hz |-> 1000000], errno |-> 0, calls |-> <<>>,
     heap |-> <<>>, open |-> {}, closes |-> [i \in 1..MaxOpens |-> 0],
     nopens |-> 0, faults |-> 0]

\* settings another user of the device node has given the driver
OutsideDrv == [mode |-> SPI_CPOL, bpw |-> 12, hz |-> 250000]

\* the session has been opened by spm_dev_open_sys_ops without a failure,
\* and the handle is shared by the two threads; the driver is as the open
\* left it, or has been reconfigured from outside since
InitRace ==
    /\ legacy = FALSE
    /\ \E cfg_null \in BOOLEAN, cfg \in CfgInputs :
         /\ cfg_null => cfg = CHOOSE c \in CfgInputs : TRUE
         /\ \E r \in spm_dev_open_sys_ops(FreshWorld, BusInput, CsInput, cfg_null,
                                          cfg, "full", FALSE) :
              /\ r.made
              /\ r.w.faults = 0
              /\ drv \in {r.w.drv, OutsideDrv}
              /\ errno = r.w.errno
              /\ osOpen = r.w.open
              /\ closes = r.w.closes
              /\ nOpens = r.w.nopens
              /\ nFaults = r.w.faults
              /\ dev = r.d
              /\ lastCfg = Completed(r.w.calls)
    /\ sess = "live"
    /\ handle = "ptr"
    /\ last = LastRec("none", SPM_OK, NoCalls, [p |-> "null", d |-> NoDev], ZeroCfg, NoXfer, ZeroCfg)
    /\ nOps = 1
    /\ thr = NoThreads

\* the world after a run of syscalls by a thread
Sync(w) ==
    /\ drv' = w.drv
    /\ errno' = w.errno
    /\ osOpen' = w.open
    /\ closes' = w.closes
    /\ nOpens' = w.nopens
    /\ nFaults' = w.faults

\* thread t enters spm_transfer or spm_batch with valid arguments
TransferBegin ==
    /\ sess = "live"
    /\ nOps < MaxOps
    /\ thr.t.pc = "idle"
    /\ v_dev_is_valid([p |-> "live", d |-> dev])
    /\ \E kind \in {"transfer", "batch"} :
         thr' = [thr EXCEPT !.t = [IdleTransfer EXCEPT !.pc = "build", !.kind = kind,
                                                       !.todo = CacheReads(kind),
                                                       !.trs = BlankDescs(kind)]]
    /\ nOps' = nOps + 1
    /\ UNCHANGED <<drv, legacy, errno, osOpen, nOpens, closes, nFaults, sess,
                   dev, handle, last, lastCfg>>

\* thread t reads one field of dev->cfg into a descriptor; a batch fills its
\* descriptors in index order
TransferRead ==
    /\ thr.t.pc = "build"
    /\ \E r \in thr.t.todo :
         /\ \A q \in thr.t.todo : r.i <= q.i
         /\ thr' = [thr EXCEPT !.t.todo = @ \ {r},
                               !.t.trs[r.i][r.f] = dev.cfg[r.f],
                               !.t.seen = @ \cup {StorePhase}]
    /\ UNCHANGED <<drv, legacy, errno, osOpen, nOpens, closes, nFaults, sess,
                   dev, handle, last, lastCfg, nOps>>

\* thread t dispatches its descriptors in one message
TransferDispatch ==
    /\ thr.t.pc = "build"
    /\ thr.t.todo = {}
    /\ \E r \in sys_message(World, dev.fd, thr.t.trs) :
         LET rc == IF r.rc < 0 THEN spm_map_errno(r.w.errno) ELSE SPM_OK
             func == IF thr.t.kind = "transfer" THEN "spm_transfer" ELSE "spm_batch"
         IN /\ Sync(r.w)
            /\ dev' = IF r.rc < 0
                      THEN [dev EXCEPT !.err = spm_set_error(rc, r.w.errno, func)]
                      ELSE dev
            /\ thr' = [thr EXCEPT !.t.pc = "done", !.t.rc = rc, !.t.sent = r.w.calls]
    /\ UNCHANGED <<legacy, sess, handle, last, lastCfg, nOps>>

\* thread c enters spm_dev_set_cfg: the configuration is sanitized, written
\* and read back into tmp
SetCfgBegin ==
    /\ sess = "live"
    /\ nOps < MaxOps
    /\ thr.c.pc = "idle"
    /\ v_dev_is_valid([p |-> "live", d |-> dev])
    /\ \E cfg \in CfgInputs, order \in {CopyOrder, Reverse(CopyOrder)} :
       \E r \in write_device_config(World, dev.fd, sanitize_cfg(cfg)) :
         /\ Sync(r.w)
         /\ dev' = IF r.rc # SPM_OK
                   THEN [dev EXCEPT !.err = spm_set_error(r.rc, r.w.errno, "spm_dev_set_cfg")]
                   ELSE dev
         /\ thr' = [thr EXCEPT !.c =
                      IF r.rc # SPM_OK
                      THEN [IdleConfig EXCEPT !.pc = "done", !.kind = "set_cfg",
                                              !.old = dev.cfg, !.new = dev.cfg,
                                              !.rc = r.rc]
                      ELSE [IdleConfig EXCEPT !.pc = "store", !.kind = "set_cfg",
                                              !.old = dev.cfg, !.new = r.cfg,
                                              !.todo = order]]
         /\ lastCfg' = Completed(r.w.calls)
    /\ nOps' = nOps + 1
    /\ UNCHANGED <<legacy, sess, handle, last>>

\* thread c enters spm_dev_refresh_cfg: the driver's settings are read
RefreshBegin ==
    /\ sess = "live"
    /\ nOps < MaxOps
    /\ thr.c.pc = "idle"
    /\ v_dev_is_valid([p |-> "live", d |-> dev])
    /\ \E r \in ioctl_read_config(World, dev.fd) :
         LET rc == IF r.rc < 0 THEN spm_map_errno(r.w.errno) ELSE SPM_OK
         IN /\ Sync(r.w)
            /\ dev' = IF rc # SPM_OK
                      THEN [dev EXCEPT !.err = spm_set_error(rc, r.w.errno,
                                                             "spm_dev_refresh_cfg")]
                      ELSE dev
            /\ thr' = [thr EXCEPT !.c =
                         IF r.rc < 0
                         THEN [IdleConfig EXCEPT !.pc = "done", !.kind = "refresh_cfg",
                                                 !.old = dev.cfg, !.new = dev.cfg,
                                                 !.rc = rc]
                         ELSE [IdleConfig EXCEPT !.pc = "store", !.kind = "refresh_cfg",
                                                 !.old = dev.cfg,
                                                 !.new = fill_config(dev.cfg, r.mode, r.bpw, r.hz),
                                                 !.todo = FillOrder]]
            /\ lastCfg' = Completed(r.w.calls)
    /\ nOps' = nOps + 1
    /\ UNCHANGED <<legacy, sess, handle, last>>

\* thread c stores the next field into dev->cfg; after the last one the call
\* returns SPM_OK
ConfigStore ==
    /\ thr.c.pc = "store"
    /\ LET f == Head(thr.c.todo)
       IN /\ dev' = [dev EXCEPT !.cfg = StoreField(@, thr.c.new, f)]
          /\ thr' = [thr EXCEPT !.c.todo = Tail(@),
                                !.c.made = @ + 1,
                                !.c.pc = IF Len(thr.c.todo) = 1 THEN "done" ELSE "store"]
    /\ UNCHANGED <<drv, legacy, errno, osOpen, nOpens, closes, nFaults, sess,
                   handle, last, lastCfg, nOps>>

NextRace ==
    \/ TransferBegin
    \/ TransferRead
    \/ TransferDispatch
    \/ SetCfgBegin
    \/ RefreshBegin
    \/ ConfigStore

SpecRace == InitRace /\ [][NextRace]_vars

(***************************************************************************)
(* A driver that does not keep what the session wrote: between two calls   *)
(* its settings are changed from outside (another user of the device node, *)
(* or the hardware), to values in and out of every range.                  *)
(***************************************************************************)
\* settings the driver may hold after a change from outside: a word size of
\* 0 and of 255, a speed of 0, mode masks with bits above the four known
OutsideDrvs ==
    { [mode |-> 0, bpw |-> 0, hz |-> 0],
      [mode |-> 499, bpw |-> 255, hz |-> 250000],
      OutsideDrv }

DriverChange ==
    /\ last.op = "none"
    /\ osOpen # {}
    /\ \E d \in OutsideDrvs :
         /\ d # drv
         /\ drv' = d
    /\ UNCHANGED <<legacy, errno, osOpen, nOpens, closes, nFaults, sess, dev,
                   handle, last, lastCfg, nOps, thr>>

NextDrv ==
    \/ Return
    \/ Open
    \/ DriverChange
    \/ RefreshCfg
    \/ GetCfg
    \/ SetSpeed
    \/ Transfer
    \/ Batch

SpecDrv == Init /\ [][NextDrv]_vars


(***************************************************************************)
(* A caller that reuses its handle variable: spm_dev_close takes the       *)
(* pointer by value, so after a close the variable still holds the address *)
(* of the freed session when it is passed to the next open.                *)
(***************************************************************************)
\* the tables the next open can be tried with: one that reaches open_ only
\* while descriptors are left
ReopenTables ==
    IF nOpens < MaxOpens THEN {"null", "full", "incomplete"} ELSE {"incomplete"}

Reopen ==
    /\ Ready
    /\ sess = "freed"
    /\ handle = "ptr"
    /\ \E cfg_null \in BOOLEAN, cfg \in CfgInputs, sys \in ReopenTables :
         /\ cfg_null => cfg = CHOOSE c \in CfgInputs : TRUE
         /\ \E r \in spm_dev_open_sys_ops(World, BusInput, CsInput, cfg_null, cfg, sys, FALSE) :
              /\ nOps' = nOps + 1
              /\ drv' = r.w.drv
              /\ errno' = r.w.errno
              /\ osOpen' = r.w.open
              /\ closes' = r.w.closes
              /\ nOpens' = r.w.nopens
              /\ nFaults' = r.w.faults
              /\ UNCHANGED <<legacy, thr>>
              /\ sess' = IF r.made THEN "live" ELSE sess
              /\ dev' = IF r.made THEN r.d ELSE dev
              /\ handle' = IF r.out_dev = "keep" THEN handle ELSE r.out_dev
              /\ last' = LastRec("open", r.rc, r.w,
                                 [p |-> IF r.made THEN "live" ELSE "null", d |-> NoDev],
                                 IF cfg_null THEN get_default_cfg ELSE cfg,
                                 [bus |-> BusInput, cs |-> CsInput, sys |-> sys,
                                  out_null |-> FALSE],
                                 ZeroCfg)
              /\ lastCfg' = IF r.made THEN Completed(r.w.calls) ELSE lastCfg

NextReopen ==
    \/ Return
    \/ Open
    \/ Close
    \/ Reopen
    \/ GetFd

SpecReopen == Init /\ [][NextReopen]_vars

(***************************************************************************)
(* Properties. A call is observed in the state right after it: last holds  *)
(* its name, result, syscalls and the session fields it found on entry.    *)
(***************************************************************************)
WriteReqs == {"WR_MODE32", "WR_MODE", "WR_SPEED", "WR_BPW"}
ReadReqs == {"RD_MODE32", "RD_MODE", "RD_BPW", "RD_SPEED"}
SetOps == {"set_cfg", "set_speed", "set_mode", "set_bpw"}

Reqs(calls) == [i \in 1..Len(calls) |-> calls[i].req]

\* the call just made was op, on the open session
OnLive(ops) == last.op \in ops /\ last.p = "live"

\* the cached mode, flags, speed and word size equal what the driver would
\* return on read-back now
Mirror ==
    dev.cfg = fill_config(dev.cfg,
                          DrvRead(drv, IF legacy THEN "RD_MODE" ELSE "RD_MODE32"),
                          clamp_bpw(DrvRead(drv, "RD_BPW")),
                          DrvRead(drv, "RD_SPEED"))

\* C1: when spm_dev_set_cfg, spm_dev_set_speed, spm_dev_set_mode,
\* spm_dev_set_bpw or spm_dev_refresh_cfg returns a non-success code, every
\* field of the cached configuration equals its value before the call.
C1_FailedChangeKeepsCache ==
    (OnLive(SetOps \cup {"refresh_cfg"}) /\ last.rc # SPM_OK)
        => dev.cfg = last.pre.cfg

\* the case "mode write succeeded, speed write failed", on a request that
\* differs from the cache
C1_Witness ==
    /\ OnLive({"set_cfg"})
    /\ last.rc # SPM_OK
    /\ Len(last.calls) = 2
    /\ last.calls[1].req = "WR_MODE32" /\ last.calls[1].ok
    /\ last.calls[2].req = "WR_SPEED" /\ ~last.calls[2].ok
    /\ sanitize_cfg(last.req) # last.pre.cfg

\* C2 as stated: whenever no call is in progress, the cache of an open
\* session mirrors the driver.
C2_MirrorAlways ==
    (sess = "live" /\ last.op = "none") => Mirror

\* C2, amended: while the last configuration call that reached the driver
\* ran its read-back to the end, the cached mode, chip-select polarity, bit
\* order, speed and clamped word size of the open session equal what the
\* driver would return on read-back; transfers and queries keep it so.
C2_MirrorAfterReadBack ==
    (sess = "live" /\ lastCfg) => Mirror

\* a speed the driver rounded down has been verified and a transfer has
\* been made since
C2_Witness ==
    /\ sess = "live" /\ lastCfg
    /\ OnLive({"transfer"}) /\ last.rc = SPM_OK
    /\ dev.cfg.speed_hz = SPM_DEFAULT_MAX_SPEED_HZ

\* C3: after a successful spm_dev_open_sys_ops, spm_dev_set_cfg,
\* spm_dev_set_speed, spm_dev_set_mode or spm_dev_set_bpw the cached mode,
\* flags, speed and word size are the values read back from the driver, not
\* the values requested.
C3_SuccessCachesReadBack ==
    (OnLive(SetOps \cup {"open"}) /\ last.rc = SPM_OK) => Mirror

\* the 32-bit mode requests were accepted throughout the call
Mode32Accepted(calls) ==
    \A i \in 1..Len(calls) :
        calls[i].req \in {"WR_MODE32", "RD_MODE32"} => calls[i].ok

\* the ioctls of an apply, as far as it got: mode (32-bit, then 8-bit when
\* that was refused), speed, word size, then the read-back of mode, word
\* size and speed
ApplyOrder(reqs) ==
    LET full32 == <<"WR_MODE32", "WR_SPEED", "WR_BPW">>
        full8 == <<"WR_MODE32", "WR_MODE", "WR_SPEED", "WR_BPW">>
        rd32 == <<"RD_MODE32", "RD_BPW", "RD_SPEED">>
        rd8 == <<"RD_MODE32", "RD_MODE", "RD_BPW", "RD_SPEED">>
        IsPrefix(a, b) == Len(a) <= Len(b) /\ a = SubSeq(b, 1, Len(a))
    IN \E wr \in {full32, full8}, rd \in {rd32, rd8} :
         \/ IsPrefix(reqs, wr)
         \/ /\ IsPrefix(wr, reqs)
            /\ IsPrefix(SubSeq(reqs, Len(wr) + 1, Len(reqs)), rd)

\* the read-back starts only after three successful writes
ReadAfterWrites(calls) ==
    \A i \in 1..Len(calls) :
        calls[i].req \in ReadReqs =>
            \A r \in {"WR_SPEED", "WR_BPW"} :
                \E j \in 1..(i - 1) : calls[j].req = r /\ calls[j].ok

\* C4: an apply writes mode mask, speed, word size in that order and reads
\* back (mode, word size, speed) only after all three writes succeeded; a
\* successful spm_dev_set_cfg whose 32-bit mode requests were accepted
\* issues exactly three writes, then exactly three reads, and no transfer.
C4_ApplyOrderAndCount ==
    OnLive(SetOps) =>
        /\ ApplyOrder(Reqs(last.calls))
        /\ ReadAfterWrites(last.calls)
        /\ (last.rc = SPM_OK /\ Mode32Accepted(last.calls)) =>
               Reqs(last.calls) = <<"WR_MODE32", "WR_SPEED", "WR_BPW",
                                    "RD_MODE32", "RD_BPW", "RD_SPEED">>

\* a write step (the 8-bit mode write, the speed write or the word-size
\* write) failed at position i
WriteStepFailed(calls, i) ==
    calls[i].req \in {"WR_MODE", "WR_SPEED", "WR_BPW"} /\ ~calls[i].ok

C6_FailedOpenClosesOnce ==
    (last.op = "open" /\ last.rc # SPM_OK /\ last.calls # <<>>
       /\ last.calls[1].req = "OPEN" /\ last.calls[1].ok) =>
        /\ Cardinality({i \in 1..Len(last.calls) :
                          last.calls[i].req = "CLOSE"
                          /\ last.calls[i].fd = last.calls[1].fd}) = 1
        /\ last.calls[Len(last.calls)].req = "CLOSE"
        /\ closes[last.calls[1].fd] = 1
        /\ last.p = "null"
        /\ handle = "null"
        /\ sess # "live"

\* the initial configuration could not be applied
C6_Witness ==
    /\ last.op = "open" /\ last.rc # SPM_OK
    /\ Len(last.calls) > 2
    /\ last.calls[1].req = "OPEN" /\ last.calls[1].ok
    /\ last.calls[Len(last.calls)].req = "CLOSE"

\* C7: close_ is called at most once on each descriptor open_ returned, and
\* no ioctl is issued on a descriptor after close_ was called on it.
C7_ReleasedOnce ==
    /\ \A fd \in DOMAIN closes : closes[fd] <= 1
    /\ \A i \in 1..Len(last.calls) :
           last.calls[i].req \notin {"OPEN", "CLOSE"} => ~last.calls[i].late

\* C8: spm_dev_close on a non-null session frees it whether close_ succeeds
\* or fails; a failing close_ gives a non-success result; closing a null
\* session returns SPM_EPARAM and calls no syscall.
C8_CloseFreesAndReports ==
    last.op = "close" =>
        /\ last.p = "live" => sess = "freed"
        /\ (last.p = "live" /\ \E i \in 1..Len(last.calls) :
                                  last.calls[i].req = "CLOSE" /\ ~last.calls[i].ok)
               => last.rc # SPM_OK
        /\ last.p = "null" => (last.rc = SPM_EPARAM /\ last.calls = <<>>)

\* C9: a call through a handle kept after spm_dev_close is rejected with
\* SPM_ESTATE or SPM_EPARAM and issues no syscall.
C9_RejectedAfterClose ==
    last.p = "freed" =>
        /\ last.rc \in {SPM_ESTATE, SPM_EPARAM}
        /\ last.calls = <<>>

\* the length is 0 or above 2^32-1
BadLen(len) == SizeIsZero(len) \/ ~SizeLeq(len, UINT32_MAX)

\* C10: spm_transfer on the open session with both buffers absent, length 0
\* or length above 2^32-1 returns SPM_EPARAM and issues no ioctl; spm_write
\* and spm_read with a null buffer or length 0 return a non-success code and
\* issue no ioctl.
C10_BadTransferRejected ==
    /\ (OnLive({"transfer"})
          /\ ((last.xin.tx = 0 /\ last.xin.rx = 0) \/ BadLen(last.xin.len)))
           => (last.rc = SPM_EPARAM /\ last.calls = <<>>)
    /\ (OnLive({"write"}) /\ (last.xin.tx = 0 \/ SizeIsZero(last.xin.len)))
           => (last.rc # SPM_OK /\ last.calls = <<>>)
    /\ (OnLive({"read"}) /\ (last.xin.rx = 0 \/ SizeIsZero(last.xin.len)))
           => (last.rc # SPM_OK /\ last.calls = <<>>)

\* a transfer with a buffer and a length of 2^32
C10_Witness ==
    /\ OnLive({"transfer"})
    /\ last.xin.tx = 1
    /\ last.xin.len = Size(Limb, 0)
    /\ last.rc = SPM_EPARAM

\* the arguments of the spm_transfer just made are valid
GoodTransferArgs ==
    /\ last.xin.tx # 0 \/ last.xin.rx # 0
    /\ ~BadLen(last.xin.len)

\* C11: a valid spm_transfer on the open session issues exactly one ioctl, a
\* message request of one descriptor, and no configuration ioctl; the
\* descriptor carries the cached speed, word size, delay and chip-select
\* toggle as they were at the call, and the caller's buffers and length.
C11_ValidTransferOneMessage ==
    (OnLive({"transfer"}) /\ GoodTransferArgs) =>
        /\ Len(last.calls) = 1
        /\ last.calls[1].req = "MESSAGE"
        /\ last.calls[1].arg = 1
        /\ last.calls[1].fd = last.pre.fd
        /\ last.calls[1].trs =
             << [tx |-> last.xin.tx, rx |-> last.xin.rx, len |-> last.xin.len,
                 speed_hz |-> last.pre.cfg.speed_hz,
                 bits_per_word |-> last.pre.cfg.bits_per_word,
                 cs_change |-> last.pre.cfg.cs_change,
                 delay_usecs |-> last.pre.cfg.delay_usecs] >>

\* a transfer of 2^32-1 bytes on a session whose cache holds a delay and a
\* chip-select toggle
C11_Witness ==
    /\ OnLive({"transfer"}) /\ GoodTransferArgs
    /\ last.rc = SPM_OK
    /\ last.xin.len = UINT32_MAX
    /\ last.pre.cfg.delay_usecs # 0
    /\ last.pre.cfg.cs_change # 0

\* transfers and queries
QueryOps == {"transfer", "write", "read", "batch", "get_cfg", "get_path", "get_fd"}

\* C12: spm_transfer, spm_write, spm_read, spm_batch, spm_dev_get_cfg,
\* spm_dev_get_path and spm_dev_get_fd on the open session, whether they
\* succeed or fail, leave every field of the cached configuration as it was,
\* and the descriptor, the syscall table and the path too: of the session
\* only the error record may differ afterwards.
C12_QueriesKeepCache ==
    OnLive(QueryOps) =>
        /\ dev.cfg = last.pre.cfg
        /\ dev.fd = last.pre.fd
        /\ dev.sys = last.pre.sys
        /\ dev.path = last.pre.path

\* a query that succeeded and read a speed from the driver that the cache
\* does not hold
C12_Witness ==
    /\ OnLive({"get_cfg"})
    /\ last.rc = SPM_OK
    /\ last.out.speed_hz # dev.cfg.speed_hz
    /\ last.calls # <<>>

\* the batch just tried had a null array, a count of 0 or above the maximum,
\* or a descriptor (at index last.xin.k) without buffers, of length 0 or of
\* a length above 2^32-1
BadBatchArgs ==
    \/ last.xin.null
    \/ last.xin.count = 0
    \/ last.xin.count > SPM_MAX_BATCH_XFERS
    \/ last.xin.k \in 1..last.xin.count

\* the batch just tried needed a heap array and did not get one
BatchAllocFailed ==
    /\ ~last.xin.null
    /\ last.xin.count > SPM_BATCH_STACK_THRESHOLD
    /\ last.xin.count <= SPM_MAX_BATCH_XFERS
    /\ last.heap = <<>>

\* C13: spm_batch on the open session with count 0, count above 256, a null
\* descriptor array, or a descriptor at any index that lacks both buffers or
\* has length 0 or a length above 2^32-1, returns SPM_EPARAM and issues no
\* ioctl.
C13_BadBatchRejected ==
    (OnLive({"batch"}) /\ BadBatchArgs) =>
        /\ last.rc = SPM_EPARAM
        /\ last.calls = <<>>

\* C13, amended: such a batch issues no ioctl and returns SPM_EPARAM, except
\* that with a valid array pointer and a count of 33..256 whose heap
\* allocation fails it returns SPM_ENOMEM, the descriptors not having been
\* looked at yet.
C13_BadBatchNoDispatch ==
    (OnLive({"batch"}) /\ BadBatchArgs) =>
        /\ last.calls = <<>>
        /\ last.rc = IF BatchAllocFailed THEN SPM_ENOMEM ELSE SPM_EPARAM

\* a batch of 256 descriptors whose last one is too long: allocated,
\* rejected and freed
C13_Witness ==
    /\ OnLive({"batch"})
    /\ last.xin.count = SPM_MAX_BATCH_XFERS
    /\ last.xin.k = SPM_MAX_BATCH_XFERS
    /\ last.xin.kind = "lenbig"
    /\ last.rc = SPM_EPARAM
    /\ last.heap = <<"calloc", "free">>

\* the batch just tried had an array of 1..256 descriptors, all of them with
\* a buffer and a length of 1..2^32-1
GoodBatchArgs ==
    /\ ~last.xin.null
    /\ last.xin.count \in 1..SPM_MAX_BATCH_XFERS
    /\ last.xin.k \notin 1..last.xin.count

\* the array the caller passed to the batch just tried
LastXfers == BatchArray(last.xin.count, last.xin.k, last.xin.kind)

\* the batch just tried made one ioctl, a message request for count
\* descriptors, the i-th built from the caller's i-th
OneMessageOfAll ==
    /\ Len(last.calls) = 1
    /\ last.calls[1].req = "MESSAGE"
    /\ last.calls[1].fd = last.pre.fd
    /\ last.calls[1].arg = last.xin.count
    /\ Len(last.calls[1].trs) = last.xin.count
    /\ \A i \in 1..last.xin.count :
         LET x == LastXfers[i]
             t == last.calls[1].trs[i]
         IN /\ t.tx = x.tx /\ t.rx = x.rx /\ t.len = x.len
            /\ t.speed_hz = IF x.speed_hz # 0 THEN x.speed_hz
                            ELSE last.pre.cfg.speed_hz
            /\ t.bits_per_word = IF x.bits_per_word # 0 THEN x.bits_per_word
                                 ELSE last.pre.cfg.bits_per_word

\* C14: a valid spm_batch of n descriptors (1 <= n <= 256) on the open
\* session issues exactly one ioctl, a message request sized for n
\* descriptors, whose i-th descriptor has the buffers and length of the
\* caller's i-th, its speed override or else the cached speed, and its
\* word-size override or else the cached word size.
C14_ValidBatchOneMessage ==
    (OnLive({"batch"}) /\ GoodBatchArgs) => OneMessageOfAll

\* C14, amended: so it is whenever the array of low-level descriptors was
\* obtained; a batch of 33..256 descriptors whose heap allocation fails
\* returns SPM_ENOMEM and issues no ioctl.
C14_ValidBatchOneMessageIfAllocated ==
    (OnLive({"batch"}) /\ GoodBatchArgs) =>
        IF BatchAllocFailed
        THEN last.rc = SPM_ENOMEM /\ last.calls = <<>>
        ELSE OneMessageOfAll

\* a batch of 256 descriptors went out from a heap array, with an override
\* in the second descriptor and the cached speed in the first
C14_Witness ==
    /\ OnLive({"batch"}) /\ GoodBatchArgs
    /\ last.xin.count = SPM_MAX_BATCH_XFERS
    /\ last.rc = SPM_OK
    /\ last.heap = <<"calloc", "free">>
    /\ Len(last.calls) = 1
    /\ last.calls[1].trs[1].speed_hz = last.pre.cfg.speed_hz
    /\ last.calls[1].trs[2].speed_hz # last.pre.cfg.speed_hz
    /\ last.calls[1].trs[3].bits_per_word # last.pre.cfg.bits_per_word

\* every public function but open and close
SessionOps == QueryOps \cup SetOps \cup {"refresh_cfg"}

\* the session the call just made was given fails the validity check: a null
\* pointer, a negative descriptor or no complete syscall table
OnInvalid(ops) ==
    /\ last.op \in ops
    /\ ~v_dev_is_valid([p |-> last.p, d |-> last.pre])

\* the caller's output object as it was passed to the call just made
CallerOut ==
    CASE last.op = "get_path" -> Untouched(last.xin.size)
      [] last.op = "get_fd" -> -1
      [] OTHER -> ZeroCfg

NullArgument ==
    \/ last.op = "set_cfg" /\ last.xin.tx = 0
    \/ last.op = "get_cfg" /\ last.xin.rx = 0
    \/ last.op = "set_speed" /\ last.req.speed_hz = 0

\* C16: on the open session, spm_dev_set_cfg with a null configuration,
\* spm_dev_get_cfg with a null output and spm_dev_set_speed with speed 0
\* return SPM_EPARAM (not SPM_ESTATE), issue no ioctl and leave the cached
\* configuration unchanged.
C16_NullArgumentRejected ==
    (OnLive({"set_cfg", "get_cfg", "set_speed"}) /\ NullArgument) =>
        /\ last.rc = SPM_EPARAM
        /\ last.calls = <<>>
        /\ dev.cfg = last.pre.cfg

\* speed 0 was refused on an open session whose cache holds a speed
C16_Witness ==
    /\ OnLive({"set_speed"}) /\ NullArgument
    /\ last.rc = SPM_EPARAM
    /\ dev.cfg.speed_hz > 0
    /\ dev.err.code = SPM_EPARAM

\* the driver holds exactly what the call just made asked it to store
ReadsBackWritten ==
    LET c == sanitize_cfg(last.req)
    IN /\ drv.mode = cfg_to_mode_mask(c)
       /\ drv.bpw = c.bits_per_word
       /\ drv.hz = c.speed_hz

\* the fields of a configuration other than the one an operation targets
OtherFields(op, cfg) ==
    [cfg EXCEPT !.mode = IF op = "set_mode" THEN 0 ELSE @,
                !.bits_per_word = IF op = "set_bpw" THEN 0 ELSE @,
                !.speed_hz = IF op = "set_speed" THEN 0 ELSE @]

\* C17: after a successful spm_dev_set_mode, spm_dev_set_bpw or
\* spm_dev_set_speed on the open session, with a driver that reads back
\* exactly what was written, every field of the cached configuration other
\* than the targeted one (speed, word size, mode, bit order, chip-select
\* polarity, inter-transfer delay, chip-select toggle) is as before the call.
C17_SettersKeepOtherFields ==
    (/\ OnLive({"set_mode", "set_bpw", "set_speed"})
     /\ last.rc = SPM_OK
     /\ ReadsBackWritten) =>
        OtherFields(last.op, dev.cfg) = OtherFields(last.op, last.pre.cfg)

\* the descriptors a spm_transfer made now on the open session may dispatch
NextTransferDescs ==
    { r.w.calls[1].trs[1] :
        r \in spm_transfer(World, [p |-> "live", d |-> dev], 1, 1, Size(0, 1)) }

\* C18: after a successful spm_dev_open_sys_ops or spm_dev_set_cfg with a
\* configuration of inter-transfer delay d and chip-select toggle c, the
\* descriptor a following spm_transfer dispatches carries delay d and
\* chip-select toggle c.
C18_PolicyReachesBus ==
    (OnLive({"open", "set_cfg"}) /\ last.rc = SPM_OK) =>
        \A t \in NextTransferDescs :
            /\ t.delay_usecs = last.req.delay_usecs
            /\ t.cs_change = NotNot(last.req.cs_change)

\* C19: spm_dev_refresh_cfg on the open session issues only read ioctls,
\* never a write or a message, and exactly three of them when the 32-bit
\* mode read succeeds; when it returns SPM_OK the cached mode, flags, speed
\* and word size are the driver's current values; the cached inter-transfer
\* delay and chip-select toggle are as before the call.
C19_RefreshReadOnlyResync ==
    OnLive({"refresh_cfg"}) =>
        /\ \A i \in 1..Len(last.calls) : last.calls[i].req \in ReadReqs
        /\ dev.cfg.delay_usecs = last.pre.cfg.delay_usecs
        /\ dev.cfg.cs_change = last.pre.cfg.cs_change
        /\ last.rc = SPM_OK =>
             /\ Mirror
             /\ last.calls # <<>>
             /\ (last.calls[1].ok => Len(last.calls) = 3)

\* C20: whenever a public function called on the open session returns a
\* code other than SPM_OK, the kind in the session's error record afterwards
\* is the code returned.
C20_FailureRecorded ==
    (OnLive(SessionOps) /\ last.rc # SPM_OK) => dev.err.code = last.rc

\* the call just made issued a message ioctl that returned a negative status
DispatchFailed ==
    /\ last.calls # <<>>
    /\ last.calls[Len(last.calls)].req = "MESSAGE"
    /\ ~last.calls[Len(last.calls)].ok

\* C21: whenever the ioctl issued by spm_transfer or spm_batch on the open
\* session returns a negative status, whatever errno holds at that moment,
\* the call returns a code other than SPM_OK and that code is the kind in
\* the session's error record afterwards.
C21_DispatchFailureSurfaced ==
    (OnLive({"transfer", "batch"}) /\ DispatchFailed) =>
        /\ last.rc # SPM_OK
        /\ dev.err.code = last.rc

\* the eleven error kinds
ErrorKinds ==
    {SPM_EPARAM, SPM_ENOTSUP, SPM_ENODEV, SPM_EBUS, SPM_ETIMEOUT, SPM_EIO,
     SPM_ESTATE, SPM_ECONFIG, SPM_ENOMEM, SPM_ECRC, SPM_EAGAIN}

\* the platform codes the classifier knows by name
RecognizedErrnos ==
    {EINVAL, ENOTDIR, EISDIR, ENOSYS, ENOTTY, EOPNOTSUPP, ENODEV, ENXIO,
     ETIMEDOUT, EAGAIN, EINTR, EBUSY, EIO, EFAULT, ENOMEM, EACCES, EPERM,
     EBADF, EPROTO}

\* C22: for every platform code, 0 and unrecognized codes included,
\* spm_map_errno returns one of the eleven error kinds, never SPM_OK, and
\* every unrecognized code gives SPM_EBUS.
C22_ClassifierNeverOk ==
    last.op = "map_errno" =>
        /\ last.rc \in ErrorKinds
        /\ last.rc # SPM_OK
        /\ errno \notin RecognizedErrnos => last.rc = SPM_EBUS

\* the kinds that stand for a resource error
ResourceErrors == {SPM_ENOMEM}

\* positions of the configuration ioctls among the syscalls of a call
ConfigCalls(calls) ==
    {i \in 1..Len(calls) : calls[i].req \in WriteReqs \cup ReadReqs}

\* the apply of a configuration stopped at a failing ioctl: the last
\* configuration ioctl of the call returned a negative status
ApplyFailed(calls) ==
    /\ ConfigCalls(calls) # {}
    /\ \E i \in ConfigCalls(calls) :
         /\ \A j \in ConfigCalls(calls) : j <= i
         /\ ~calls[i].ok

\* C23: spm_dev_open_sys_ops given a syscall table that lacks one of
\* open/close/ioctl returns a resource error without calling any table
\* function, and a failure while applying the initial configuration makes
\* it return SPM_ECONFIG.
C23_OpenFailureKinds ==
    last.op = "open" =>
        /\ (~last.xin.out_null /\ last.xin.sys = "incomplete") =>
              (last.rc \in ResourceErrors /\ last.calls = <<>>)
        /\ ApplyFailed(last.calls) => last.rc = SPM_ECONFIG

\* the close_ call of the spm_dev_close just made, if it made one
CloseCalls == {i \in 1..Len(last.calls) : last.calls[i].req = "CLOSE"}

\* C24: spm_dev_close on the open session returns SPM_OK when the
\* underlying close succeeds and SPM_EIO when it fails, whatever errno the
\* failing close left.
C24_CloseResult ==
    OnLive({"close"}) =>
        \A i \in CloseCalls :
            last.rc = IF last.calls[i].ok THEN SPM_OK ELSE SPM_EIO

\* a configuration the driver can be given
ValidCfg(cfg) ==
    /\ cfg.mode \in {SPM_MODE0, SPM_MODE1, SPM_MODE2, SPM_MODE3}
    /\ cfg.bits_per_word \in SPM_MIN_BPW_VALUE..SPM_MAX_BPW_VALUE
    /\ cfg.speed_hz > 0
    /\ cfg.lsb_first \in {0, 1}
    /\ cfg.cs_active_high \in {0, 1}
    /\ cfg.cs_change \in {0, 1}

\* C25: for every configuration, with a mode above 3, a word size of 0 or
\* above 32 or a speed of 0 as well, sanitize_cfg yields mode 0..3, word
\* size 8..32, a speed above 0 (5000000 in place of 0) and flags of 0 or 1,
\* and sanitizing the result again changes nothing.
C25_SanitizeValidIdempotent ==
    /\ last.op \in {"sanitize", "sanitize2"} =>
          /\ ValidCfg(last.out)
          /\ last.req.speed_hz = 0 => last.out.speed_hz = SPM_DEFAULT_SPEED_HZ
    /\ last.op = "sanitize2" => last.out = last.xin

\* a configuration wrong in mode, word size and speed came out valid and
\* went through a second time unchanged
C25_Witness ==
    /\ last.op = "sanitize2"
    /\ last.req.mode = MaxMode /\ last.req.bits_per_word = 255
    /\ last.req.speed_hz = 0
    /\ last.out.mode = SPM_MODE0
    /\ last.out.bits_per_word = SPM_MAX_BPW_VALUE
    /\ last.out.speed_hz = SPM_DEFAULT_SPEED_HZ

\* C26: for each of the four clock modes and every combination of
\* chip-select polarity and bit order, decoding the mask cfg_to_mode_mask
\* produced gives the same mode back.
C26_ModeRoundTrip ==
    (last.op = "decode" /\ last.req.mode <= SPM_MODE3) =>
        last.out.mode = last.req.mode

\* mode 2 with both flags set went through the mask 14 and came back
C26_Witness ==
    /\ last.op = "decode"
    /\ last.req.mode = SPM_MODE2
    /\ last.req.lsb_first = 1 /\ last.req.cs_active_high = 1
    /\ last.rc = BitOr(SPI_CPOL, BitOr(SPI_CS_HIGH, SPI_LSB_FIRST))
    /\ last.out.mode = SPM_MODE2

\* the string a buffer holds: its bytes before the first terminator
CStr(buf) ==
    LET nuls == {i \in 1..Len(buf) : buf[i] = "NUL"}
        end == IF nuls = {} THEN Len(buf) + 1
               ELSE CHOOSE i \in nuls : \A j \in nuls : i <= j
    IN SubSeq(buf, 1, end - 1)

C28_InvalidBusRejected ==
    (last.op = "open" /\ (last.xin.bus = 20 \/ last.xin.cs = 5)) =>
        last.rc # SPM_OK

\* the platform codes that say a request is not supported
NotSupportedErrnos == {ENOSYS, ENOTTY, EOPNOTSUPP}

\* positions in the syscalls of the call just made where a 32-bit mode
\* request failed
Mode32Failures ==
    {i \in 1..Len(last.calls) :
        /\ last.calls[i].req \in {"WR_MODE32", "RD_MODE32"}
        /\ ~last.calls[i].ok}

\* the syscall at position i + 1 is the 8-bit mode request
LegacyTriedAfter(i) ==
    /\ i < Len(last.calls)
    /\ last.calls[i + 1].req \in {"WR_MODE", "RD_MODE"}

\* C29: when the 32-bit mode read or write fails for a reason other than
\* the request not being supported (an I/O fault, say), the 8-bit request
\* is not attempted and the call returns the failure.
C29_FallbackOnlyWhenUnsupported ==
    \A i \in Mode32Failures :
        last.calls[i].errno \notin NotSupportedErrnos =>
            /\ ~LegacyTriedAfter(i)
            /\ last.rc # SPM_OK

\* C30: when the 32-bit and then the 8-bit mode request both fail, the
\* result code and the recorded system code are those of the 32-bit
\* attempt, not of the 8-bit one.
C30_FirstFailureReported ==
    \A i \in Mode32Failures :
        (LegacyTriedAfter(i) /\ ~last.calls[i + 1].ok) =>
            /\ last.rc = spm_map_errno(last.calls[i].errno)
            /\ last.p = "live" => dev.err.sys_errno = last.calls[i].errno

\* the bits of a mode mask that carry clock phase, clock polarity,
\* chip-select polarity and bit order
ModeBits(mask) == BitAnd(mask, BitOr(BitOr(SPI_CPHA, SPI_CPOL), BitOr(SPI_CS_HIGH, SPI_LSB_FIRST)))

\* a call that issued mode requests on a legacy driver, every request other
\* than the 32-bit ones being accepted
LegacyServed ==
    /\ legacy
    /\ last.op \in {"open", "set_cfg", "get_cfg", "refresh_cfg"}
    /\ \E i \in 1..Len(last.calls) : last.calls[i].req \in {"WR_MODE32", "RD_MODE32"}
    /\ \A i \in 1..Len(last.calls) :
         last.calls[i].req \notin {"WR_MODE32", "RD_MODE32"} => last.calls[i].ok

\* mode, chip-select polarity and bit order as decoded from the driver's
\* 8-bit mode
DecodedFromMode8(cfg) ==
    LET m8 == DrvRead(drv, "RD_MODE")
    IN /\ cfg.mode = mask_to_mode(m8)
       /\ cfg.cs_active_high = NotNot(BitAnd(m8, SPI_CS_HIGH))
       /\ cfg.lsb_first = NotNot(BitAnd(m8, SPI_LSB_FIRST))

\* C31: on a driver that rejects every 32-bit mode request and accepts the
\* 8-bit ones, spm_dev_open_sys_ops, spm_dev_set_cfg, spm_dev_get_cfg and
\* spm_dev_refresh_cfg succeed; each refused 32-bit write is followed by an
\* 8-bit write carrying the same mode, chip-select and bit-order bits, each
\* refused 32-bit read by an 8-bit read, and the mode decoded from the 8-bit
\* value is the one stored in the cache or returned to the caller.
C31_LegacyDriverServed ==
    LegacyServed =>
        /\ last.rc = SPM_OK
        /\ \A i \in 1..Len(last.calls) :
             /\ last.calls[i].req = "WR_MODE32" =>
                  /\ last.calls[i + 1].req = "WR_MODE"
                  /\ ModeBits(last.calls[i + 1].arg) = ModeBits(last.calls[i].arg)
             /\ last.calls[i].req = "RD_MODE32" =>
                  last.calls[i + 1].req = "RD_MODE"
        /\ DecodedFromMode8(IF last.op = "get_cfg" THEN last.out ELSE dev.cfg)

\* mode 3 with LSB first was written as the 8-bit mask 11 and read back
C31_Witness ==
    /\ LegacyServed
    /\ OnLive({"set_cfg"})
    /\ last.rc = SPM_OK
    /\ \E i \in 1..Len(last.calls) :
         last.calls[i].req = "WR_MODE" /\ last.calls[i].arg = 11
    /\ dev.cfg.mode = SPM_MODE3 /\ dev.cfg.lsb_first = 1

\* the word sizes sanitize_cfg and clamp_bpw let through
BpwRange == SPM_MIN_BPW_VALUE..SPM_MAX_BPW_VALUE

\* every word size in the syscalls of the call just made
BpwSent ==
    {last.calls[i].arg : i \in {j \in 1..Len(last.calls) : last.calls[j].req = "WR_BPW"}}
    \cup UNION { {last.calls[i].trs[k].bits_per_word : k \in 1..Len(last.calls[i].trs)}
                 : i \in {j \in 1..Len(last.calls) : last.calls[j].req = "MESSAGE"} }

\* C32: every bits-per-word value sent to the driver, in a configuration
\* write and in every descriptor of spm_transfer and spm_batch (a non-zero
\* override of a batch descriptor included), lies in 8..32; and
\* spm_dev_set_bpw(0) and spm_dev_set_bpw(33) succeed, with 8 and 32 written,
\* when the driver accepts the requests.
C32_BpwClampedEverywhere ==
    /\ BpwSent \subseteq BpwRange
    /\ (/\ OnLive({"set_bpw"})
        /\ last.req.bits_per_word \in {0, 33}
        /\ \A i \in 1..Len(last.calls) : last.calls[i].ok) =>
            /\ last.rc = SPM_OK
            /\ \E i \in 1..Len(last.calls) :
                 /\ last.calls[i].req = "WR_BPW"
                 /\ last.calls[i].arg = clamp_bpw(last.req.bits_per_word)

\* the batch just tried passed the argument checks with a count above the
\* stack threshold
LargeBatch ==
    /\ OnLive({"batch"})
    /\ ~last.xin.null
    /\ last.xin.count > SPM_BATCH_STACK_THRESHOLD
    /\ last.xin.count <= SPM_MAX_BATCH_XFERS

\* C33: an spm_batch call with count in 33..256 either allocates the heap
\* array of low-level descriptors once and frees it once before it returns
\* (on success, on an invalid descriptor and on a failed dispatch alike), or
\* gets no array and returns SPM_ENOMEM without any ioctl; a call with count
\* up to 32, or one rejected on its arguments or for want of a session,
\* allocates nothing.
C33_LargeBatchStorageFreed ==
    (last.op = "batch" /\ last.p \in {"live", "null"}) =>
        IF LargeBatch
        THEN \/ last.heap = <<"calloc", "free">>
             \/ /\ last.heap = <<>>
                /\ last.rc = SPM_ENOMEM
                /\ last.calls = <<>>
        ELSE last.heap = <<>>

\* a batch of 33 descriptors whose last one is invalid: allocated, rejected
\* without dispatch, and freed
C33_Witness ==
    /\ LargeBatch
    /\ last.xin.count = SPM_BATCH_STACK_THRESHOLD + 1
    /\ last.xin.k = last.xin.count
    /\ last.rc = SPM_EPARAM
    /\ last.calls = <<>>
    /\ last.heap = <<"calloc", "free">>

\* cfg with mode, flags, word size and speed as the driver would return them
\* now
DriverView(cfg) ==
    fill_config(cfg, DrvRead(drv, IF legacy THEN "RD_MODE" ELSE "RD_MODE32"),
                clamp_bpw(DrvRead(drv, "RD_BPW")), DrvRead(drv, "RD_SPEED"))

\* C34: spm_dev_get_cfg on the open session with an output object issues
\* read ioctls only: three when it succeeds with the 32-bit mode read
\* accepted, two (the 32-bit and the 8-bit mode read) when every ioctl
\* fails. On success the output holds the driver's mode, flags, speed and
\* clamped word size; on failure the output is as the caller passed it.
C34_QueryReadsDriver ==
    (OnLive({"get_cfg"}) /\ last.xin.rx # 0) =>
        /\ last.calls # <<>>
        /\ \A i \in 1..Len(last.calls) : last.calls[i].req \in ReadReqs
        /\ (last.rc = SPM_OK /\ last.calls[1].ok) =>
               Reqs(last.calls) = <<"RD_MODE32", "RD_BPW", "RD_SPEED">>
        /\ (\A i \in 1..Len(last.calls) : ~last.calls[i].ok) =>
               Reqs(last.calls) = <<"RD_MODE32", "RD_MODE">>
        /\ last.rc = SPM_OK => last.out = DriverView(ZeroCfg)
        /\ last.rc # SPM_OK => last.out = ZeroCfg

\* the value thread t read for r is the one thread c is storing, and differs
\* from the one cached before
FromNew(r) ==
    /\ thr.t.trs[r.i][r.f] = thr.c.new[r.f]
    /\ thr.c.new[r.f] # thr.c.old[r.f]

\* the value thread t read for r is the one cached before the configuration
\* call, and differs from the one being stored
FromOld(r) ==
    /\ thr.t.trs[r.i][r.f] = thr.c.old[r.f]
    /\ thr.c.new[r.f] # thr.c.old[r.f]

\* thread t has dispatched descriptors that hold a field of the new and a
\* field of the old cached configuration
MixedDispatch ==
    /\ thr.t.pc = "done"
    /\ thr.t.sent # <<>>
    /\ thr.t.sent[Len(thr.t.sent)].trs = thr.t.trs
    /\ \E a \in CacheReads(thr.t.kind), b \in CacheReads(thr.t.kind) :
         FromNew(a) /\ FromOld(b)

\* C35: with spm_transfer or spm_batch running in one thread and
\* spm_dev_set_cfg or spm_dev_refresh_cfg in another on the same session,
\* descriptors mixing fields of the old and the new cached configuration
\* are dispatched, and only by a call whose reads of the cache overlap the
\* stores of the configuration call (not all made before the first store,
\* not all made after the last).
C35_RaceMixesConfigurations ==
    MixedDispatch => thr.t.seen \notin {{"before"}, {"after"}}

\* spm_transfer dispatched the new speed with the old word size while
\* spm_dev_set_cfg was copying
C35_Witness ==
    /\ MixedDispatch
    /\ thr.t.kind = "transfer" /\ thr.c.kind = "set_cfg"
    /\ thr.t.rc = SPM_OK
    /\ FromNew([i |-> 1, f |-> "speed_hz"])
    /\ FromOld([i |-> 1, f |-> "bits_per_word"])

\* C36: in every state of an open session the cached mode is one of the
\* four defined modes and the cached bits-per-word lies in 8..32, whatever
\* the driver returns on read-back (a word size of 0 or 255, mode masks with
\* further bits set).
C36_CachedModeAndBpwInRange ==
    sess = "live" =>
        /\ dev.cfg.mode \in {SPM_MODE0, SPM_MODE1, SPM_MODE2, SPM_MODE3}
        /\ dev.cfg.bits_per_word \in BpwRange

\* C37: in every state of an open session the cached clock speed is
\* greater than 0, and so is the speed of every descriptor spm_transfer
\* builds and of every spm_batch descriptor that inherits the device
\* speed, whatever speed the driver returns on read-back.
C37_CachedSpeedPositive ==
    /\ sess = "live" => dev.cfg.speed_hz > 0
    /\ OnLive({"transfer", "write", "read", "batch"}) =>
         \A i \in 1..Len(last.calls) :
           last.calls[i].req = "MESSAGE" =>
             \A k \in 1..Len(last.calls[i].trs) : last.calls[i].trs[k].speed_hz > 0

\* C38: whenever spm_dev_open_sys_ops fails with a non-null output pointer,
\* the caller's session variable is NULL afterwards: it never still holds the
\* address of a session freed earlier.
C38_FailedOpenLeavesNull ==
    (last.op = "open" /\ ~last.xin.out_null /\ last.rc # SPM_OK) => handle = "null"

\* the function a call's failure is recorded under
RecordedBy(op) ==
    CASE op \in {"transfer", "write", "read"} -> {"spm_transfer", "spm_write", "spm_read"}
      [] op = "batch" -> {"spm_batch", "ioctl_build_kernel_transfers"}
      [] op = "get_cfg" -> {"spm_dev_get_cfg"}
      [] op \in {"set_cfg", "set_speed", "set_mode", "set_bpw"} ->
           {"spm_dev_set_cfg", "spm_dev_set_speed", "spm_dev_set_mode", "spm_dev_set_bpw"}
      [] op = "refresh_cfg" -> {"spm_dev_refresh_cfg"}
      [] op = "get_path" -> {"spm_dev_get_path"}
      [] op = "get_fd" -> {"spm_dev_get_fd"}

\* C39: a call on an open session that returns SPM_OK leaves the session's
\* error record as it found it; a record that changed is that of the failing
\* call itself: its result code, its errno, its function.
C39_ErrorRecordSticky ==
    OnLive(SessionOps) =>
        /\ last.rc = SPM_OK => last.post.err = last.pre.err
        /\ last.post.err # last.pre.err =>
             /\ last.post.err.code = last.rc
             /\ last.post.err.func \in RecordedBy(last.op)
        /\ dev.err = last.post.err

\* C40: the mode mask of a sanitized configuration has no bit outside the
\* low four (phase, polarity, chip-select-high, LSB-first), so it is the
\* same after the cut to 8 bits of the legacy write, and fill_config on
\* that byte gives back the mode, the chip-select polarity and the bit
\* order of the configuration.
C40_MaskSurvivesLegacyByte ==
    /\ last.op \in {"mask", "fill"} =>
         /\ ModeBits(last.rc) = last.rc
         /\ U8(last.rc) = last.rc
    /\ last.op = "fill" =>
         /\ last.out.mode = last.xin.mode
         /\ last.out.cs_active_high = last.xin.cs_active_high
         /\ last.out.lsb_first = last.xin.lsb_first

C40_Witness ==
    /\ last.op = "fill"
    /\ last.req.mode > SPM_MODE3
    /\ last.xin.cs_active_high = 1
    /\ last.xin.lsb_first = 1
    /\ last.rc = BitOr(SPI_CS_HIGH, SPI_LSB_FIRST)
    /\ last.out.mode = SPM_MODE0

====
